---- MODULE Spec2Model ----
(***************************************************************************)
(* Model of the commit-history cache of ma-git-viewer (backend/src/git):   *)
(* the shared GitRepository object (store handle + path + commit cache),   *)
(* its two mutexes and the RwLock around it, the snapshot build, the lazy  *)
(* per-path indices and the paginated/filtered query; the diff between two *)
(* commits with its per-file author attribution and the author filter of   *)
(* the diff route.                                                         *)
(***************************************************************************)
EXTENDS Integers, Sequences, FiniteSets, TLC

(***************************************************************************)
(* Bounds of the model.                                                    *)
(***************************************************************************)
\* largest `limit` a request carries
MaxLimit == 2
\* largest `offset` a request carries
MaxOffset == 2

(***************************************************************************)
(* The revision stores on disk.  Two repositories with disjoint commit ids *)
(* and disjoint author emails; store "A" has a linear history 1 <- 2 <- 3  *)
(* (2 touches only f, 3 touches only g), a side branch 4 whose commit time *)
(* is older than its parent's, and a merge 5 of 3 and 4.  Store "B" has    *)
(* 11 <- 12 and a merge 13 of 12 and the root 14, on no branch.            *)
(***************************************************************************)
\* no commit id (a failed resolution), no lock holder, no object
None == 0

RepoPaths == {"A", "B"}

\* a directory in which Repository::discover finds no repository
NotARepo == "X"

FileF == <<"f">>
FileG == <<"g">>
FileH == <<"d", "h">>
Files == {FileF, FileG, FileH}

\* a tree maps every file to the version of its blob, 0 when absent
Tree(f, g, h) == [x \in Files |-> IF x = FileF THEN f ELSE IF x = FileG THEN g ELSE h]

EmptyTree == Tree(0, 0, 0)

CommitIds == {1, 2, 3, 4, 5, 11, 12, 13, 14}

Commit(id) ==
  CASE id = 1  -> [store |-> "A", parents |-> <<>>,     time |-> 2, name |-> "Ann",   email |-> "a", tree |-> Tree(0, 0, 1)]
    [] id = 2  -> [store |-> "A", parents |-> <<1>>,    time |-> 3, name |-> "Bob",   email |-> "b", tree |-> Tree(1, 0, 1)]
    [] id = 3  -> [store |-> "A", parents |-> <<2>>,    time |-> 4, name |-> "Ann B", email |-> "a", tree |-> Tree(1, 1, 1)]
    [] id = 4  -> [store |-> "A", parents |-> <<1>>,    time |-> 1, name |-> "Bob",   email |-> "b", tree |-> Tree(2, 0, 2)]
    [] id = 5  -> [store |-> "A", parents |-> <<3, 4>>, time |-> 5, name |-> "Ann",   email |-> "a", tree |-> Tree(2, 1, 2)]
    [] id = 11 -> [store |-> "B", parents |-> <<>>,     time |-> 1, name |-> "Xi",    email |-> "x", tree |-> Tree(1, 0, 0)]
    [] id = 12 -> [store |-> "B", parents |-> <<11>>,   time |-> 2, name |-> "Yo",    email |-> "y", tree |-> Tree(2, 0, 0)]
    [] id = 13 -> [store |-> "B", parents |-> <<12, 14>>, time |-> 4, name |-> "Yo",  email |-> "y", tree |-> Tree(2, 1, 0)]
    [] id = 14 -> [store |-> "B", parents |-> <<>>,     time |-> 3, name |-> "Xi",    email |-> "x", tree |-> Tree(0, 1, 0)]

\* the commits whose tree object the store may fail to load (a pack being
\* rewritten, an I/O error): commit.tree() returns Ok or Err
FlakyTrees == {14}

CommitsOf(r) == {c \in CommitIds : Commit(c).store = r}

EmailsOf(r) == {Commit(c).email : c \in CommitsOf(r)}

Emails == {Commit(c).email : c \in CommitIds}

\* local branches of each store and the commit each points at
BranchTip(r) ==
  IF r = "A" THEN [main |-> 3, dev |-> 4, merged |-> 5]
             ELSE [main |-> 12, old |-> 11]

BranchNames(r) == DOMAIN BranchTip(r)

\* the remote-tracking branches of each store and the commit each points at
RemoteTip(r) == [b \in (IF r = "A" THEN {"origin/dev"} ELSE {}) |-> 4]

\* the name a local branch made from a remote-tracking branch is given
TrackingBranch == "feat"

\* HEAD of a store: a symbolic ref to a branch (which may not exist: an
\* unborn or deleted branch) or a detached commit id
HeadBranch(b) == [branch |-> b, oid |-> 0]
HeadDetached(c) == [branch |-> "", oid |-> c]
UnbornBranch == "orphan"

HeadValues(r) == {HeadBranch(b) : b \in BranchNames(r) \cup {UnbornBranch}}

\* query paths: the root (empty string) and pathspecs, as path components
RootPath == <<>>
Paths == {RootPath, <<"f">>, <<"g">>, <<"d">>}

\* Option values of the request parameters
NoneArg == [some |-> FALSE, v |-> <<>>]
Some(x) == [some |-> TRUE, v |-> x]

(***************************************************************************)
(* Sequence helpers.                                                       *)
(***************************************************************************)
Range(s) == {s[i] : i \in 1..Len(s)}

Min(a, b) == IF a < b THEN a ELSE b

Max(a, b) == IF a > b THEN a ELSE b

\* the largest usize; the machine word is scaled down to four bits
UsizeMax == 15

\* a + b on usize: the wrapped sum of a build without overflow checks, or
\* the panic of a build with them
usize_add(a, b) ==
  IF a + b > UsizeMax
  THEN {[panicked |-> FALSE, v |-> (a + b) % (UsizeMax + 1)], [panicked |-> TRUE, v |-> 0]}
  ELSE {[panicked |-> FALSE, v |-> a + b]}

IsPrefix(p, s) == Len(p) <= Len(s) /\ \A i \in 1..Len(p) : p[i] = s[i]

\* all orderings of a finite set
RECURSIVE Perms(_)
Perms(S) ==
  IF S = {} THEN {<<>>}
  ELSE UNION {{<<x>> \o p : p \in Perms(S \ {x})} : x \in S}

(***************************************************************************)
(* The store's primitives (libgit2), as far as the cache uses them.        *)
(***************************************************************************)
\* repo.head().and_then(|h| h.peel_to_commit()): the commit id, or None
ResolveHead(r, h) ==
  IF h.branch = "" THEN h.oid
  ELSE IF h.branch \in BranchNames(r) THEN BranchTip(r)[h.branch]
  ELSE IF h.branch = TrackingBranch /\ DOMAIN RemoteTip(r) # {} THEN RemoteTip(r)["origin/dev"]
  ELSE None

RECURSIVE Ancestors(_)
Ancestors(c) == {c} \cup UNION {Ancestors(p) : p \in Range(Commit(c).parents)}

\* revwalk with Sort::TIME pushed at head: every commit reachable from the
\* head, by commit time, newest first
RECURSIVE SortByTime(_)
SortByTime(S) ==
  IF S = {} THEN <<>>
  ELSE LET m == CHOOSE x \in S : \A y \in S : Commit(y).time <= Commit(x).time
       IN  <<m>> \o SortByTime(S \ {m})

RevwalkTime(c) == SortByTime(Ancestors(c))

\* the commits no child of which is left in S, newest first, then the rest
RECURSIVE SortTopoTime(_)
SortTopoTime(S) ==
  IF S = {} THEN <<>>
  ELSE LET ready == {c \in S : \A d \in S : c \notin Range(Commit(d).parents)}
           m == CHOOSE x \in ready : \A y \in ready : Commit(y).time <= Commit(x).time
       IN  <<m>> \o SortTopoTime(S \ {m})

RevwalkHideOnlyFrom(from_oid, to_oid) == SortTopoTime(Ancestors(to_oid) \ {from_oid})

\* revwalk with Sort::TOPOLOGICAL | Sort::TIME pushed at to_oid, from_oid
\* (None when absent) hidden with its ancestors
RevwalkTopoTime(from_oid, to_oid) ==
  SortTopoTime(Ancestors(to_oid) \ (IF from_oid = None THEN {} ELSE Ancestors(from_oid)))

\* diff_tree_to_tree(parent_tree, tree, pathspec): the changed files under path
DiffDeltas(old, new, path) == {f \in Files : IsPrefix(path, f) /\ old[f] # new[f]}

CommitTouchesPathParentLast(c, path) ==
  LET ps == Commit(c).parents
      parent_tree == IF Len(ps) > 0 THEN Commit(ps[Len(ps)]).tree ELSE EmptyTree
  IN  DiffDeltas(parent_tree, Commit(c).tree, path) # {}

commit_touches_path(c, path) ==
  LET ps == Commit(c).parents
      parent_tree == IF Len(ps) > 0 THEN Commit(ps[1]).tree ELSE EmptyTree
  IN  DiffDeltas(parent_tree, Commit(c).tree, path) # {}

(***************************************************************************)
(* Last-commit lookup (history.rs).  head_oid is what repo.head() resolves *)
(* to (None when it does not resolve: push_head fails).                    *)
(***************************************************************************)
\* commit_to_info: the fields read from the commit (relative_time is
\* computed from timestamp and the clock of the call)
commit_to_info(c) == [oid |-> c, author |-> Commit(c).name, timestamp |-> Commit(c).time]

NoInfo == [oid |-> None, author |-> "", timestamp |-> 0]

\* position in walk, from i on, of the first commit that touches path; 0
\* when the walk ends without one
RECURSIVE FirstTouching(_, _, _)
FirstTouching(walk, path, i) ==
  IF i > Len(walk) THEN 0
  ELSE IF commit_touches_path(walk[i], path) THEN i
  ELSE FirstTouching(walk, path, i + 1)

get_last_commit_for_path(head_oid, path) ==
  IF head_oid = None THEN [ok |-> FALSE, info |-> NoInfo]
  ELSE LET walk == RevwalkTime(head_oid)
           i == FirstTouching(walk, path, 1)
       IN  [ok |-> TRUE, info |-> commit_to_info(IF i = 0 THEN head_oid ELSE walk[i])]

\* s.starts_with(format!("{}/", dir)) on paths as component sequences
StartsWithDir(s, dir) == dir # RootPath /\ Len(dir) < Len(s) /\ IsPrefix(dir, s)

\* get_touched_paths: the diff against the first parent without a pathspec;
\* a target is touched by a delta at the target, below it or above it (old
\* and new path of a delta are the same: no rename detection is asked for).
\* The result is a Vec without duplicates whose order the caller ignores.
get_touched_paths(c, paths) ==
  LET ps == Commit(c).parents
      parent_tree == IF Len(ps) > 0 THEN Commit(ps[1]).tree ELSE EmptyTree
      deltas == DiffDeltas(parent_tree, Commit(c).tree, RootPath)
  IN  {target \in paths :
         \E path \in deltas :
           path = target \/ StartsWithDir(path, target) \/ StartsWithDir(target, path)}

\* the loop over the walk: each touched path still remaining gets the commit
\* and leaves remaining; the loop breaks when nothing remains
RECURSIVE LastCommitsWalk(_, _, _, _)
LastCommitsWalk(walk, i, remaining, results) ==
  IF i > Len(walk) \/ remaining = {} THEN [remaining |-> remaining, results |-> results]
  ELSE LET touched == get_touched_paths(walk[i], remaining)
       IN  LastCommitsWalk(walk, i + 1, remaining \ touched,
                           [p \in touched |-> commit_to_info(walk[i])] @@ results)

NoResults == [p \in {} |-> NoInfo]

get_last_commits_for_paths(head_oid, paths) ==
  IF paths = <<>> THEN [ok |-> TRUE, results |-> NoResults]
  ELSE IF head_oid = None THEN [ok |-> FALSE, results |-> NoResults]
  ELSE LET w == LastCommitsWalk(RevwalkTime(head_oid), 1, Range(paths), NoResults)
       IN  [ok |-> TRUE,
            results |-> [p \in w.remaining |-> commit_to_info(head_oid)] @@ w.results]

(***************************************************************************)
(* CommitCache (cache.rs).                                                 *)
(***************************************************************************)
CachedCommit(c) ==
  [oid |-> c, author_name |-> Commit(c).name, author_email |-> Commit(c).email,
   timestamp |-> Commit(c).time, parent_count |-> Len(Commit(c).parents),
   parents |-> Commit(c).parents]

\* commit_indices are 0-based positions in all_commits
At(all_commits, idx) == all_commits[idx + 1]

\* the contributor map of an index: per author email, the name first seen
\* and the number of indexed commits
ContributorEntries(all_commits, indices) ==
  LET emails == {At(all_commits, indices[k]).author_email : k \in 1..Len(indices)}
      first(e) == CHOOSE k \in 1..Len(indices) :
                     /\ At(all_commits, indices[k]).author_email = e
                     /\ \A j \in 1..(k - 1) : At(all_commits, indices[j]).author_email # e
      count(e) == Cardinality({k \in 1..Len(indices) : At(all_commits, indices[k]).author_email = e})
  IN  {[name |-> At(all_commits, indices[first(e)]).author_name, email |-> e,
        commit_count |-> count(e)] : e \in emails}

ContributorsAnyOrder(entries) == Perms(entries)

\* into_iter() of the HashMap followed by a stable sort by count descending:
\* any order of the entries in which the counts do not increase
SortedContributors(entries) ==
  {s \in Perms(entries) : \A i \in 1..(Len(s) - 1) : s[i].commit_count >= s[i + 1].commit_count}

BuildRootPathCacheOneBased(all_commits) ==
  LET commit_indices == [k \in 1..(Len(all_commits) - 1) |-> k]
  IN  {[commit_indices |-> commit_indices, contributors |-> cs] :
         cs \in SortedContributors(ContributorEntries(all_commits, commit_indices))}

\* the possible results of build_root_path_cache
build_root_path_cache(all_commits) ==
  LET commit_indices == [k \in 1..Len(all_commits) |-> k - 1]
  IN  {[commit_indices |-> commit_indices, contributors |-> cs] :
         cs \in SortedContributors(ContributorEntries(all_commits, commit_indices))}

\* Option<CommitCache>::None
NoCache == [all_commits |-> <<>>, path_cache |-> <<>>, head_oid |-> None]

BuildTopological(r, h) ==
  LET head_oid == ResolveHead(r, h)
  IN  IF head_oid = None THEN {NoCache}
      ELSE LET walk == RevwalkTopoTime(None, head_oid)
               all_commits == [k \in 1..Len(walk) |-> CachedCommit(walk[k])]
           IN  {[all_commits |-> all_commits,
                 path_cache |-> [p \in {RootPath} |-> root_cache],
                 head_oid |-> head_oid] : root_cache \in build_root_path_cache(all_commits)}

\* the possible results of CommitCache::build; NoCache stands for Err, returned
\* when the head does not resolve
build(r, h) ==
  LET head_oid == ResolveHead(r, h)
  IN  IF head_oid = None THEN {NoCache}
      ELSE LET walk == RevwalkTime(head_oid)
               all_commits == [k \in 1..Len(walk) |-> CachedCommit(walk[k])]
           IN  {[all_commits |-> all_commits,
                 path_cache |-> [p \in {RootPath} |-> root_cache],
                 head_oid |-> head_oid] : root_cache \in build_root_path_cache(all_commits)}

IsValidIgnoringHead(cache, r, h) == ResolveHead(r, h) # None

is_valid(cache, r, h) ==
  LET head_commit == ResolveHead(r, h)
  IN  IF head_commit # None THEN head_commit = cache.head_oid ELSE FALSE

\* the positions of all_commits whose commit touches path, in order
RECURSIVE TouchingIndices(_, _, _)
TouchingIndices(all_commits, path, idx) ==
  IF idx >= Len(all_commits) THEN <<>>
  ELSE (IF commit_touches_path(At(all_commits, idx).oid, path) THEN <<idx>> ELSE <<>>)
         \o TouchingIndices(all_commits, path, idx + 1)

\* a path index that counts positions from one
BuildPathCacheOneBased(cache, path) ==
  LET zero_based == TouchingIndices(cache.all_commits, path, 0)
      commit_indices == [k \in 1..Len(zero_based) |-> zero_based[k] + 1]
  IN  {[commit_indices |-> commit_indices, contributors |-> cs] :
         cs \in SortedContributors(ContributorEntries(cache.all_commits, zero_based))}

\* the positions of all_commits at which build_path_cache may return Err:
\* commit_touches_path loads the tree of the commit and of its first parent
FailingPositions(all_commits) ==
  {idx \in 0..(Len(all_commits) - 1) :
     LET c == At(all_commits, idx).oid
         ps == Commit(c).parents
     IN  ({c} \cup (IF Len(ps) > 0 THEN {ps[1]} ELSE {})) \cap FlakyTrees # {}}

\* the possible Ok results of build_path_cache
build_path_cache(cache, path) ==
  LET commit_indices == TouchingIndices(cache.all_commits, path, 0)
  IN  {[commit_indices |-> commit_indices, contributors |-> cs] :
         cs \in SortedContributors(ContributorEntries(cache.all_commits, commit_indices))}

PageTakeThenSkip(cache, filtered_indices, limit, offset) ==
  LET n == Len(filtered_indices)
  IN  [k \in 1..(Min(limit, n) - Min(offset, Min(limit, n))) |->
         At(cache.all_commits, filtered_indices[offset + k]).oid]

\* the page of a sequence of indices: skip(offset).take(limit)
page(cache, filtered_indices, limit, offset) ==
  LET n == Len(filtered_indices)
  IN  [k \in 1..(Min(offset + limit, n) - Min(offset, n)) |->
         At(cache.all_commits, filtered_indices[offset + k]).oid]

\* the AuthorInfo list of a path index
author_infos(path_cache) ==
  [k \in 1..Len(path_cache.contributors) |->
     [name |-> path_cache.contributors[k].name, email |-> path_cache.contributors[k].email]]

QueryCommitsNoFilter(cache, path_cache, limit, offset, exclude_authors) ==
  LET total == Len(path_cache.commit_indices)
      filtered_indices == path_cache.commit_indices
      filtered_total == Len(filtered_indices)
  IN  {[panicked |-> sum.panicked,
        commits |-> page(cache, filtered_indices, limit, offset),
        total |-> filtered_total,
        filtered_total |-> filtered_total,
        has_more |-> filtered_total > sum.v,
        contributors |-> author_infos(path_cache)] : sum \in usize_add(offset, limit)}

QueryCommitsFilteredContributors(cache, path_cache, limit, offset, exclude_authors) ==
  LET exclude_set == IF exclude_authors.some THEN Range(exclude_authors.v) ELSE {}
      total == Len(path_cache.commit_indices)
      keep(idx) == At(cache.all_commits, idx).author_email \notin exclude_set
      shown(c) == c.email \notin exclude_set
      filtered_indices == IF exclude_set = {} THEN path_cache.commit_indices
                          ELSE SelectSeq(path_cache.commit_indices, keep)
      filtered_total == Len(filtered_indices)
  IN  {[panicked |-> sum.panicked,
        commits |-> page(cache, filtered_indices, limit, offset),
        total |-> total,
        filtered_total |-> filtered_total,
        has_more |-> filtered_total > sum.v,
        contributors |-> SelectSeq(author_infos(path_cache), shown)] :
         sum \in usize_add(offset, limit)}

\* the possible outcomes of query_commits; exclude_authors is an
\* Option<&[String]>; a panic unwinds out of the evaluation of has_more
query_commits(cache, path_cache, limit, offset, exclude_authors) ==
  LET exclude_set == IF exclude_authors.some THEN Range(exclude_authors.v) ELSE {}
      total == Len(path_cache.commit_indices)
      keep(idx) == At(cache.all_commits, idx).author_email \notin exclude_set
      filtered_indices == IF exclude_set = {} THEN path_cache.commit_indices
                          ELSE SelectSeq(path_cache.commit_indices, keep)
      filtered_total == Len(filtered_indices)
  IN  {[panicked |-> sum.panicked,
        commits |-> page(cache, filtered_indices, limit, offset),
        total |-> total,
        filtered_total |-> filtered_total,
        has_more |-> filtered_total > sum.v,
        contributors |-> author_infos(path_cache)] : sum \in usize_add(offset, limit)}

\* the response slot of an outcome that is an Err
NoPage ==
  [panicked |-> FALSE, commits |-> <<>>, total |-> 0, filtered_total |-> 0,
   has_more |-> FALSE, contributors |-> <<>>]

GetCommitsForPathAlwaysBuild(cache, path, limit, offset, exclude_authors) ==
  UNION {LET c2 == [cache EXCEPT !.path_cache =
                       [p \in DOMAIN cache.path_cache \cup {path} |->
                          IF p = path THEN entry ELSE cache.path_cache[p]]]
         IN  {[cache |-> c2, walked |-> TRUE, failed |-> FALSE, response |-> q] :
                q \in query_commits(c2, c2.path_cache[path], limit, offset, exclude_authors)} :
           entry \in build_path_cache(cache, path)}

\* a get_commits_for_path that keeps the indices collected before the Err
GetCommitsForPathStorePartial(cache, path, limit, offset, exclude_authors) ==
  IF path \notin DOMAIN cache.path_cache
  THEN UNION {LET c2 == [cache EXCEPT !.path_cache = (path :> entry) @@ cache.path_cache]
              IN  {[cache |-> c2, walked |-> TRUE, failed |-> FALSE, response |-> q] :
                     q \in query_commits(c2, c2.path_cache[path], limit, offset, exclude_authors)} :
                entry \in build_path_cache(cache, path)}
         \cup {[cache |-> [cache EXCEPT !.path_cache =
                             (path :> [commit_indices |->
                                         SelectSeq(TouchingIndices(cache.all_commits, path, 0),
                                                   LAMBDA i : i < idx),
                                       contributors |-> <<>>]) @@ cache.path_cache],
                 walked |-> TRUE, failed |-> TRUE, response |-> NoPage] :
                  idx \in FailingPositions(cache.all_commits)}
  ELSE {[cache |-> cache, walked |-> FALSE, failed |-> FALSE, response |-> q] :
          q \in query_commits(cache, cache.path_cache[path], limit, offset, exclude_authors)}

\* the possible outcomes of get_commits_for_path: the cache afterwards, the
\* response, whether "Building path cache" was logged, and whether
\* build_path_cache returned Err (the ? returns before the insert)
get_commits_for_path(cache, path, limit, offset, exclude_authors) ==
  IF path \notin DOMAIN cache.path_cache
  THEN UNION {LET c2 == [cache EXCEPT !.path_cache = (path :> entry) @@ cache.path_cache]
              IN  {[cache |-> c2, walked |-> TRUE, failed |-> FALSE, response |-> q] :
                     q \in query_commits(c2, c2.path_cache[path], limit, offset, exclude_authors)} :
                entry \in build_path_cache(cache, path)}
         \cup (IF FailingPositions(cache.all_commits) # {}
               THEN {[cache |-> cache, walked |-> TRUE, failed |-> TRUE, response |-> NoPage]}
               ELSE {})
  ELSE {[cache |-> cache, walked |-> FALSE, failed |-> FALSE, response |-> q] :
          q \in query_commits(cache, cache.path_cache[path], limit, offset, exclude_authors)}

\* GitRepository::get_commits' closure: the key of an absent path is ""
get_commits(cache, path, limit, offset, exclude_authors) ==
  LET path_key == IF path.some THEN path.v ELSE RootPath
  IN  get_commits_for_path(cache, path_key, limit, offset, exclude_authors)

NeedsRebuildOnlyWhenMissing(cache, r, h) == cache = NoCache

\* with_cache's decision to (re)build
needs_rebuild(cache, r, h) ==
  IF cache = NoCache THEN TRUE ELSE ~is_valid(cache, r, h)

\* the response of a request that returned an error or panicked
NoBody == <<>>

\* the outcome of with_cache around one outcome o of the closure
closure_outcome(o, rebuilt) ==
  [ok |-> ~o.response.panicked /\ ~o.failed, panicked |-> o.response.panicked, cache |-> o.cache,
   rebuilt |-> rebuilt, walked |-> o.walked,
   response |-> IF o.response.panicked \/ o.failed THEN NoBody
                ELSE [commits |-> o.response.commits, total |-> o.response.total,
                      filtered_total |-> o.response.filtered_total,
                      has_more |-> o.response.has_more,
                      contributors |-> o.response.contributors]]

WithCacheKeepPathIndices(cache, r, h, path, limit, offset, exclude_authors) ==
  IF needs_rebuild(cache, r, h)
  THEN UNION {IF new_cache = NoCache
              THEN {[ok |-> FALSE, panicked |-> FALSE, cache |-> cache, rebuilt |-> TRUE,
                     walked |-> FALSE, response |-> NoBody]}
              ELSE {closure_outcome(o, TRUE) :
                      o \in get_commits([new_cache EXCEPT !.path_cache = @ @@ cache.path_cache],
                                        path, limit, offset, exclude_authors)} :
                new_cache \in build(r, h)}
  ELSE {closure_outcome(o, FALSE) :
          o \in get_commits(cache, path, limit, offset, exclude_authors)}

WithCacheRebuildOnlyWhenMissing(cache, r, h, path, limit, offset, exclude_authors) ==
  IF cache = NoCache
  THEN UNION {IF new_cache = NoCache
              THEN {[ok |-> FALSE, panicked |-> FALSE, cache |-> cache, rebuilt |-> TRUE,
                     walked |-> FALSE, response |-> NoBody]}
              ELSE {closure_outcome(o, TRUE) :
                      o \in get_commits(new_cache, path, limit, offset, exclude_authors)} :
                new_cache \in build(r, h)}
  ELSE {closure_outcome(o, FALSE) :
          o \in get_commits(cache, path, limit, offset, exclude_authors)}

WithCacheServeStale(cache, r, h, path, limit, offset, exclude_authors) ==
  IF needs_rebuild(cache, r, h)
  THEN UNION {IF new_cache = NoCache
              THEN (IF cache = NoCache
                    THEN {[ok |-> FALSE, panicked |-> FALSE, cache |-> cache, rebuilt |-> TRUE,
                           walked |-> FALSE, response |-> NoBody]}
                    ELSE {closure_outcome(o, TRUE) :
                            o \in get_commits(cache, path, limit, offset, exclude_authors)})
              ELSE {closure_outcome(o, TRUE) :
                      o \in get_commits(new_cache, path, limit, offset, exclude_authors)} :
                new_cache \in build(r, h)}
  ELSE {closure_outcome(o, FALSE) :
          o \in get_commits(cache, path, limit, offset, exclude_authors)}

\* the possible outcomes of with_cache running get_commits on the object's
\* cache, with the store's head h: ok = FALSE is the Err of a failed build or
\* a panic inside the closure
with_cache(cache, r, h, path, limit, offset, exclude_authors) ==
  IF needs_rebuild(cache, r, h)
  THEN UNION {IF new_cache = NoCache
              THEN {[ok |-> FALSE, panicked |-> FALSE, cache |-> cache, rebuilt |-> TRUE,
                     walked |-> FALSE, response |-> NoBody]}
              ELSE {closure_outcome(o, TRUE) :
                      o \in get_commits(new_cache, path, limit, offset, exclude_authors)} :
                new_cache \in build(r, h)}
  ELSE {closure_outcome(o, FALSE) :
          o \in get_commits(cache, path, limit, offset, exclude_authors)}

(***************************************************************************)
(* Diff reconstruction and author attribution (diff.rs).                   *)
(***************************************************************************)
\* the blobs of the stores: text lines, whether libgit2 finds the content
\* binary, whether its bytes are valid UTF-8; g holds a NUL byte, which makes
\* it binary to libgit2 and is valid UTF-8
NoBlob == [lines |-> <<>>, binary |-> FALSE, utf8 |-> TRUE]

Blob(f, v) ==
  CASE v = 0 -> NoBlob
    [] f = FileF /\ v = 1 -> [lines |-> <<"a", "b">>, binary |-> FALSE, utf8 |-> TRUE]
    [] f = FileF /\ v = 2 -> [lines |-> <<"a", "c", "d">>, binary |-> FALSE, utf8 |-> TRUE]
    [] f = FileG -> [lines |-> <<"z">>, binary |-> TRUE, utf8 |-> TRUE]
    [] f = FileH /\ v = 1 -> [lines |-> <<"p">>, binary |-> FALSE, utf8 |-> TRUE]
    [] OTHER -> [lines |-> <<"p", "q">>, binary |-> FALSE, utf8 |-> FALSE]

\* opts.context_lines(3)
ContextLines == 3

RECURSIVE CommonPrefixLen(_, _)
CommonPrefixLen(a, b) ==
  IF a = <<>> \/ b = <<>> THEN 0
  ELSE IF Head(a) # Head(b) THEN 0
  ELSE 1 + CommonPrefixLen(Tail(a), Tail(b))

\* Patch::from_diff for one delta: no hunk for binary content, else one hunk
\* of the context before the change, the lines removed and the lines added,
\* each line with its origin character
PatchHunks(old, new) ==
  IF old.binary \/ new.binary \/ old.lines = new.lines THEN <<>>
  ELSE LET n == CommonPrefixLen(old.lines, new.lines)
           ctx == SubSeq(old.lines, Max(1, n - ContextLines + 1), n)
           del == SubSeq(old.lines, n + 1, Len(old.lines))
           add == SubSeq(new.lines, n + 1, Len(new.lines))
       IN  <<[old_lines |-> Len(ctx) + Len(del), new_lines |-> Len(ctx) + Len(add),
              lines |-> [k \in 1..Len(ctx) |-> [origin |-> " ", content |-> ctx[k]]]
                          \o [k \in 1..Len(del) |-> [origin |-> "-", content |-> del[k]]]
                          \o [k \in 1..Len(add) |-> [origin |-> "+", content |-> add[k]]]]>>

\* the deltas of a diff come ordered by path
DeltaOrder == <<FileH, FileF, FileG>>

\* delta.flags().is_binary(), read before the delta's patch is made: libgit2
\* sets the flag when it loads the content, so binary content may or may not
\* be flagged yet
IsBinaryFlags(old, new) == IF old.binary \/ new.binary THEN {TRUE, FALSE} ELSE {FALSE}

\* get_blob_content(...).ok(): the text of the blob at the path, None when the
\* path is not in the tree or the bytes are not UTF-8
blob_content(blob) == IF blob # NoBlob /\ blob.utf8 THEN Some(blob.lines) ELSE NoneArg

LineType(origin) ==
  CASE origin = "+" -> "addition"
    [] origin = "-" -> "deletion"
    [] origin = " " -> "context"
    [] OTHER -> "header"

\* the number of lines of the hunks whose origin is the given character
RECURSIVE CountOrigin(_, _)
CountOrigin(hunks, origin) ==
  IF hunks = <<>> THEN 0
  ELSE Cardinality({k \in 1..Len(hunks[1].lines) : hunks[1].lines[k].origin = origin})
         + CountOrigin(Tail(hunks), origin)

\* stats.insertions ("+") and stats.deletions ("-") after the loop over the
\* deltas: one per line of that origin in the patch of every delta
RECURSIVE tally(_, _, _, _)
tally(deltas, from_tree, to_tree, origin) ==
  IF deltas = <<>> THEN 0
  ELSE CountOrigin(PatchHunks(Blob(Head(deltas), from_tree[Head(deltas)]),
                              Blob(Head(deltas), to_tree[Head(deltas)])), origin)
         + tally(Tail(deltas), from_tree, to_tree, origin)

\* the FileDiff pushed for the delta of file f, before the authors are known
file_diff(f, from_tree, to_tree, is_binary) ==
  LET old == Blob(f, from_tree[f])
      new == Blob(f, to_tree[f])
      patch == PatchHunks(old, new)
  IN  [old_path |-> Some(f), new_path |-> Some(f),
       status |-> IF from_tree[f] = 0 THEN "added"
                  ELSE IF to_tree[f] = 0 THEN "deleted" ELSE "modified",
       hunks |-> [h \in 1..Len(patch) |->
                    [old_lines |-> patch[h].old_lines, new_lines |-> patch[h].new_lines,
                     lines |-> [k \in 1..Len(patch[h].lines) |->
                                  [line_type |-> LineType(patch[h].lines[k].origin),
                                   content |-> patch[h].lines[k].content]]]],
       old_content |-> IF ~is_binary THEN blob_content(old) ELSE NoneArg,
       new_content |-> IF ~is_binary THEN blob_content(new) ELSE NoneArg,
       is_binary |-> is_binary,
       authors |-> <<>>,
       biggest_change_author |-> NoneArg]

\* an AuthorCommitInfo not yet in the map
NoAuthorCommitInfo == [email |-> "", name |-> "", commit_count |-> 0, last_commit_timestamp |-> 0]

TouchFilesLastSeen(file_authors, c, path_filter) ==
  LET commit == Commit(c)
      parent_tree == IF Len(commit.parents) > 0 THEN Commit(commit.parents[1]).tree ELSE EmptyTree
      pathspec == IF path_filter.some THEN path_filter.v ELSE RootPath
      deltas == DiffDeltas(parent_tree, commit.tree, pathspec)
      bump(old) ==
        LET entry == IF old = NoAuthorCommitInfo
                     THEN [email |-> commit.email, name |-> commit.name, commit_count |-> 0,
                           last_commit_timestamp |-> commit.time]
                     ELSE old
        IN  [entry EXCEPT !.commit_count = @ + 1, !.last_commit_timestamp = commit.time]
  IN  [f \in Files |->
         IF f \in deltas
         THEN [e \in Emails |-> IF e = commit.email THEN bump(file_authors[f][e])
                                ELSE file_authors[f][e]]
         ELSE file_authors[f]]

\* one iteration of the walk: the commit is diffed against its first parent
\* and counted for its author on every file of the diff
touch_files(file_authors, c, path_filter) ==
  LET commit == Commit(c)
      parent_tree == IF Len(commit.parents) > 0 THEN Commit(commit.parents[1]).tree ELSE EmptyTree
      pathspec == IF path_filter.some THEN path_filter.v ELSE RootPath
      deltas == DiffDeltas(parent_tree, commit.tree, pathspec)
      bump(old) ==
        LET entry == IF old = NoAuthorCommitInfo
                     THEN [email |-> commit.email, name |-> commit.name, commit_count |-> 0,
                           last_commit_timestamp |-> commit.time]
                     ELSE old
        IN  [entry EXCEPT !.commit_count = @ + 1,
                          !.last_commit_timestamp = IF commit.time > @ THEN commit.time ELSE @]
  IN  [f \in Files |->
         IF f \in deltas
         THEN [e \in Emails |-> IF e = commit.email THEN bump(file_authors[f][e])
                                ELSE file_authors[f][e]]
         ELSE file_authors[f]]

RECURSIVE walk_commits(_, _, _)
walk_commits(file_authors, visited, path_filter) ==
  IF visited = <<>> THEN file_authors
  ELSE walk_commits(touch_files(file_authors, Head(visited), path_filter), Tail(visited),
                    path_filter)

SortedAuthorsRecencyFirst(entries) ==
  {s \in Perms(entries) :
     \A i \in 1..(Len(s) - 1) :
       \/ s[i].last_commit_timestamp > s[i + 1].last_commit_timestamp
       \/ /\ s[i].last_commit_timestamp = s[i + 1].last_commit_timestamp
          /\ s[i].commit_count >= s[i + 1].commit_count}

\* into_values() of a file's map followed by the stable sort by commit count
\* descending, then last timestamp descending
SortedAuthors(entries) ==
  {s \in Perms(entries) :
     \A i \in 1..(Len(s) - 1) :
       \/ s[i].commit_count > s[i + 1].commit_count
       \/ /\ s[i].commit_count = s[i + 1].commit_count
          /\ s[i].last_commit_timestamp >= s[i + 1].last_commit_timestamp}

\* the possible results of get_file_authors_between_commits: the commits
\* visited and, for every file some visited commit changed, its authors
get_file_authors_between_commits(from_oid, to_oid, path_filter) ==
  LET visited == RevwalkTopoTime(from_oid, to_oid)
      file_authors == walk_commits([f \in Files |-> [e \in Emails |-> NoAuthorCommitInfo]],
                                   visited, path_filter)
      entries(f) == {file_authors[f][e] : e \in Emails} \ {NoAuthorCommitInfo}
      touched == {f \in Files : entries(f) # {}}
  IN  {[visited |-> visited, result |-> m] :
         m \in {x \in [touched -> UNION {SortedAuthors(entries(f)) : f \in touched}] :
                  \A f \in touched : x[f] \in SortedAuthors(entries(f))}}

\* a.name.to_lowercase().cmp(b.name.to_lowercase()) on the author names of the stores
LowerRank(name) ==
  CASE name = "Ann" -> 1
    [] name = "Ann B" -> 2
    [] name = "Bob" -> 3
    [] name = "Xi" -> 4
    [] OTHER -> 5

\* all_contributors of the enriched files, then sorted by name
sorted_contributors(files) ==
  LET has(k, e) == \E a \in Range(files[k].authors) : a.email = e
      emails == {e \in Emails : \E k \in 1..Len(files) : has(k, e)}
      first(e) == CHOOSE k \in 1..Len(files) : has(k, e) /\ \A j \in 1..(k - 1) : ~has(j, e)
      info(e) == LET a == CHOOSE a \in Range(files[first(e)].authors) : a.email = e
                 IN  [name |-> a.name, email |-> e]
  IN  {s \in Perms({info(e) : e \in emails}) :
         \A i \in 1..(Len(s) - 1) : LowerRank(s[i].name) <= LowerRank(s[i + 1].name)}

\* request identifiers that name no revision: text that is not an object
\* id, an id no object has, and the id of a commit whose tree object is
\* missing from the store
MalformedOid == 98
UnknownOid == 99
CorruptOid == 97

\* git2::Oid::from_str(s).ok(): None stands for the parse error
oid_from_str(s) == IF s = MalformedOid THEN None ELSE s

\* repo.find_commit(oid).is_ok()
find_commit(r, oid) == oid \in CommitsOf(r) \cup {CorruptOid}

\* whether the identifier of a request resolves to a commit of store r
resolves(r, s) == oid_from_str(s) # None /\ find_commit(r, oid_from_str(s))

\* the Err(AppError::Git) of a `?` on a failed store call
GitError ==
  [ok |-> FALSE, error |-> "Git", visited |-> <<>>, file_authors |-> <<>>, response |-> NoBody]

\* the Err(AppError::CommitNotFound) of get_diff
CommitNotFound ==
  [ok |-> FALSE, error |-> "CommitNotFound", visited |-> <<>>, file_authors |-> <<>>,
   response |-> NoBody]

GetDiffAgainstFirstParent(r, from_commit, to_commit, path) ==
  IF ~resolves(r, to_commit) THEN {CommitNotFound}
  ELSE IF to_commit = CorruptOid THEN {GitError}
  ELSE IF from_commit.some /\ ~resolves(r, from_commit.v) THEN {CommitNotFound}
  ELSE IF from_commit.some /\ from_commit.v = CorruptOid THEN {GitError}
  ELSE
    LET to == Commit(to_commit)
        to_tree == to.tree
        from_tree == IF Len(to.parents) > 0 THEN Commit(to.parents[1]).tree ELSE EmptyTree
        pathspec == IF path.some THEN path.v ELSE RootPath
        deltas == SelectSeq(DeltaOrder, LAMBDA f : f \in DiffDeltas(from_tree, to_tree, pathspec))
        flags == {b \in [1..Len(deltas) -> BOOLEAN] :
                    \A k \in 1..Len(deltas) :
                      b[k] \in IsBinaryFlags(Blob(deltas[k], from_tree[deltas[k]]),
                                             Blob(deltas[k], to_tree[deltas[k]]))}
        from_oid == IF from_commit.some THEN from_commit.v ELSE None
        plain(is_binary) == [k \in 1..Len(deltas) |->
                               file_diff(deltas[k], from_tree, to_tree, is_binary[k])]
        enrich(file, file_authors) ==
          IF file.new_path.v \in DOMAIN file_authors
          THEN [file EXCEPT !.authors = file_authors[file.new_path.v],
                            !.biggest_change_author =
                               IF file_authors[file.new_path.v] = <<>> THEN NoneArg
                               ELSE Some(file_authors[file.new_path.v][1].email)]
          ELSE file
        files(is_binary, file_authors) ==
          [k \in 1..Len(deltas) |-> enrich(plain(is_binary)[k], file_authors)]
    IN  UNION {UNION {{[ok |-> TRUE, error |-> "", visited |-> fa.visited,
                 file_authors |-> fa.result,
                 response |->
                   [from_commit |-> from_commit, to_commit |-> to_commit, path |-> path,
                    files |-> files(is_binary, fa.result),
                    stats |-> [files_changed |-> Len(deltas),
                               insertions |-> tally(deltas, from_tree, to_tree, "+"),
                               deletions |-> tally(deltas, from_tree, to_tree, "-")],
                    contributors |-> contributors,
                    total_files |-> Len(deltas),
                    filtered_files |-> Len(deltas)]] :
                contributors \in sorted_contributors(files(is_binary, fa.result))} :
              fa \in get_file_authors_between_commits(from_oid, to_commit, path)} :
            is_binary \in flags}

\* the possible outcomes of get_diff's closure on store r: from_commit is an
\* Option, to_commit and from_commit name commits by id
get_diff(r, from_commit, to_commit, path) ==
  IF ~resolves(r, to_commit) THEN {CommitNotFound}
  ELSE IF to_commit = CorruptOid THEN {GitError}
  ELSE IF from_commit.some /\ ~resolves(r, from_commit.v) THEN {CommitNotFound}
  ELSE IF from_commit.some /\ from_commit.v = CorruptOid THEN {GitError}
  ELSE
    LET to == Commit(to_commit)
        to_tree == to.tree
        from_tree == IF from_commit.some THEN Commit(from_commit.v).tree
                     ELSE IF Len(to.parents) > 0 THEN Commit(to.parents[1]).tree
                     ELSE EmptyTree
        pathspec == IF path.some THEN path.v ELSE RootPath
        deltas == SelectSeq(DeltaOrder, LAMBDA f : f \in DiffDeltas(from_tree, to_tree, pathspec))
        flags == {b \in [1..Len(deltas) -> BOOLEAN] :
                    \A k \in 1..Len(deltas) :
                      b[k] \in IsBinaryFlags(Blob(deltas[k], from_tree[deltas[k]]),
                                             Blob(deltas[k], to_tree[deltas[k]]))}
        from_oid == IF from_commit.some THEN from_commit.v ELSE None
        plain(is_binary) == [k \in 1..Len(deltas) |->
                               file_diff(deltas[k], from_tree, to_tree, is_binary[k])]
        enrich(file, file_authors) ==
          IF file.new_path.v \in DOMAIN file_authors
          THEN [file EXCEPT !.authors = file_authors[file.new_path.v],
                            !.biggest_change_author =
                               IF file_authors[file.new_path.v] = <<>> THEN NoneArg
                               ELSE Some(file_authors[file.new_path.v][1].email)]
          ELSE file
        files(is_binary, file_authors) ==
          [k \in 1..Len(deltas) |-> enrich(plain(is_binary)[k], file_authors)]
    IN  UNION {UNION {{[ok |-> TRUE, error |-> "", visited |-> fa.visited,
                 file_authors |-> fa.result,
                 response |->
                   [from_commit |-> from_commit, to_commit |-> to_commit, path |-> path,
                    files |-> files(is_binary, fa.result),
                    stats |-> [files_changed |-> Len(deltas),
                               insertions |-> tally(deltas, from_tree, to_tree, "+"),
                               deletions |-> tally(deltas, from_tree, to_tree, "-")],
                    contributors |-> contributors,
                    total_files |-> Len(deltas),
                    filtered_files |-> Len(deltas)]] :
                contributors \in sorted_contributors(files(is_binary, fa.result))} :
              fa \in get_file_authors_between_commits(from_oid, to_commit, path)} :
            is_binary \in flags}

\* an author filter that drops every file an excluded author touched
FilterByAuthorsAnyExcluded(response, exclude_authors) ==
  LET excluded_emails == IF exclude_authors.some
                         THEN {e \in Range(exclude_authors.v) : e # ""} ELSE {}
      keep(file) == \A a \in Range(file.authors) : a.email \notin excluded_emails
  IN  IF excluded_emails # {}
      THEN [response EXCEPT !.files = SelectSeq(@, keep),
                            !.filtered_files = Len(SelectSeq(response.files, keep))]
      ELSE response

\* the author filter of the diff route on a response of get_diff; the
\* parameter is split at commas, trimmed and blank entries are dropped
filter_by_authors(response, exclude_authors) ==
  LET excluded_emails == IF exclude_authors.some
                         THEN {e \in Range(exclude_authors.v) : e # ""} ELSE {}
      keep(file) == \/ file.authors = <<>>
                    \/ \E a \in Range(file.authors) : a.email \notin excluded_emails
  IN  IF excluded_emails # {}
      THEN [response EXCEPT !.files = SelectSeq(@, keep),
                            !.filtered_files = Len(SelectSeq(response.files, keep))]
      ELSE response

(***************************************************************************)
(* The working copy of a store and the operations on it (diff.rs,          *)
(* repository.rs).                                                         *)
(***************************************************************************)
\* the tree of the commit HEAD resolves to, the empty tree for an unborn HEAD
HeadTree(r, h) == IF ResolveHead(r, h) = None THEN EmptyTree ELSE Commit(ResolveHead(r, h)).tree

\* the working copy after a clone that checked out commit c: the index and
\* the files on disk are the commit's tree, no local branch has been added
CleanCopy(c) == [index |-> Commit(c).tree, workdir |-> Commit(c).tree, created |-> {}]

\* the local branches of store r with working copy w
LocalBranches(r, w) == BranchNames(r) \cup w.created

DirtyFilesUnstagedOnly(r, h, w) ==
  {f \in Files : w.index[f] # 0 /\ w.workdir[f] # w.index[f]}

\* repo.statuses(include_untracked(false)) filtered on INDEX_* and WT_*
\* other than WT_NEW: the files staged differently from HEAD, and the
\* tracked files whose content on disk differs from the index
dirty_files(r, h, w) ==
  {f \in Files : \/ w.index[f] # HeadTree(r, h)[f]
                 \/ (w.index[f] # 0 /\ w.workdir[f] # w.index[f])}

\* checkout_tree(tree, force): tracked files become the tree's; files the
\* index does not know and the tree does not have stay on disk
checkout_tree(w, tree) ==
  [w EXCEPT !.index = tree,
            !.workdir = [f \in Files |-> IF tree[f] # 0 \/ w.index[f] # 0 THEN tree[f]
                                         ELSE w.workdir[f]]]

\* the outcome of checkout_branch on store r with HEAD h and working copy w:
\* the error, or the new HEAD and working copy
checkout_branch(r, h, w, branch_name) ==
  IF branch_name \notin LocalBranches(r, w)
  THEN [ok |-> FALSE, error |-> "PathNotFound", head |-> h, wc |-> w]
  ELSE IF dirty_files(r, h, w) # {}
  THEN [ok |-> FALSE, error |-> "CheckoutConflict", head |-> h, wc |-> w]
  ELSE [ok |-> TRUE, error |-> "",
        head |-> HeadBranch(branch_name),
        wc |-> checkout_tree(w, Commit(ResolveHead(r, HeadBranch(branch_name))).tree)]

\* the outcome of checkout_remote_branch: the status check comes first, then
\* the local name must be free and the remote branch must exist; the local
\* branch is created at the remote branch's commit and checked out
checkout_remote_branch(r, h, w, remote_branch, local_name) ==
  IF dirty_files(r, h, w) # {}
  THEN [ok |-> FALSE, error |-> "CheckoutConflict", head |-> h, wc |-> w]
  ELSE IF local_name \in LocalBranches(r, w)
  THEN [ok |-> FALSE, error |-> "InvalidPath", head |-> h, wc |-> w]
  ELSE IF remote_branch \notin DOMAIN RemoteTip(r)
  THEN [ok |-> FALSE, error |-> "PathNotFound", head |-> h, wc |-> w]
  ELSE [ok |-> TRUE, error |-> "",
        head |-> HeadBranch(local_name),
        wc |-> checkout_tree([w EXCEPT !.created = @ \cup {local_name}],
                             Commit(RemoteTip(r)[remote_branch]).tree)]

\* diff_tree_to_workdir_with_index(head_tree) with untracked files included:
\* the files under the path whose index entry differs from HEAD or whose
\* content on disk differs from the index, ordered by path
WorkdirDeltas(head_tree, w, path) ==
  SelectSeq(DeltaOrder,
            LAMBDA f : /\ IsPrefix(path, f)
                       /\ (w.index[f] # head_tree[f] \/ w.workdir[f] # w.index[f]))

\* delta.status() mapped to DiffStatus: a file staged for deletion is
\* deleted even when it is on disk; a file neither in HEAD nor in the index
\* is untracked, which the match sends to Unmodified
workdir_status(head_tree, w, f) ==
  IF head_tree[f] # 0 /\ w.index[f] = 0 THEN "deleted"
  ELSE IF head_tree[f] = 0 /\ w.index[f] = 0 THEN "unmodified"
  ELSE IF head_tree[f] = 0 THEN "added"
  ELSE IF w.workdir[f] = 0 THEN "deleted"
  ELSE "modified"

\* the patch of a delta of the working-copy diff: none for an untracked
\* file, whose content the diff does not load
workdir_patch(head_tree, w, f) ==
  IF workdir_status(head_tree, w, f) = "unmodified" THEN <<>>
  ELSE IF workdir_status(head_tree, w, f) = "deleted"
       THEN PatchHunks(Blob(f, head_tree[f]), NoBlob)
       ELSE PatchHunks(Blob(f, head_tree[f]), Blob(f, w.workdir[f]))

WorkdirFileDiffAlwaysRead(f, head_tree, w, is_binary) ==
  LET patch == workdir_patch(head_tree, w, f)
  IN  [old_path |-> Some(f), new_path |-> Some(f),
       status |-> workdir_status(head_tree, w, f),
       hunks |-> [h \in 1..Len(patch) |->
                    [old_lines |-> patch[h].old_lines, new_lines |-> patch[h].new_lines,
                     lines |-> [k \in 1..Len(patch[h].lines) |->
                                  [line_type |-> LineType(patch[h].lines[k].origin),
                                   content |-> patch[h].lines[k].content]]]],
       old_content |-> blob_content(Blob(f, head_tree[f])),
       new_content |-> blob_content(Blob(f, w.workdir[f])),
       is_binary |-> is_binary,
       authors |-> <<>>,
       biggest_change_author |-> NoneArg]

\* the FileDiff pushed for the delta of file f of the working-copy diff: the
\* old content from the head tree, the new content read from the file on disk
workdir_file_diff(f, head_tree, w, is_binary) ==
  LET patch == workdir_patch(head_tree, w, f)
  IN  [old_path |-> Some(f), new_path |-> Some(f),
       status |-> workdir_status(head_tree, w, f),
       hunks |-> [h \in 1..Len(patch) |->
                    [old_lines |-> patch[h].old_lines, new_lines |-> patch[h].new_lines,
                     lines |-> [k \in 1..Len(patch[h].lines) |->
                                  [line_type |-> LineType(patch[h].lines[k].origin),
                                   content |-> patch[h].lines[k].content]]]],
       old_content |-> IF ~is_binary THEN blob_content(Blob(f, head_tree[f])) ELSE NoneArg,
       new_content |-> IF ~is_binary THEN blob_content(Blob(f, w.workdir[f])) ELSE NoneArg,
       is_binary |-> is_binary,
       authors |-> <<>>,
       biggest_change_author |-> NoneArg]

\* a working-copy diff whose stats count the files that have a patch
GetWorkingTreeDiffCountsPatches(r, h, w, path) ==
  IF ResolveHead(r, h) = None
  THEN {[ok |-> FALSE, error |-> "Internal", response |-> NoBody]}
  ELSE
    LET head_tree == HeadTree(r, h)
        pathspec == IF path.some THEN path.v ELSE RootPath
        deltas == WorkdirDeltas(head_tree, w, pathspec)
        flags == {b \in [1..Len(deltas) -> BOOLEAN] :
                    \A k \in 1..Len(deltas) :
                      b[k] \in IsBinaryFlags(Blob(deltas[k], head_tree[deltas[k]]),
                                             Blob(deltas[k], w.workdir[deltas[k]]))}
        count(origin) ==
          LET RECURSIVE sum(_)
              sum(k) == IF k = 0 THEN 0
                        ELSE CountOrigin(workdir_patch(head_tree, w, deltas[k]), origin)
                               + sum(k - 1)
          IN  sum(Len(deltas))
    IN  {[ok |-> TRUE, error |-> "",
          response |->
            [from_commit |-> Some(ResolveHead(r, h)), to_commit |-> "WORKING_TREE",
             path |-> path,
             files |-> [k \in 1..Len(deltas) |->
                          workdir_file_diff(deltas[k], head_tree, w, is_binary[k])],
             stats |-> [files_changed |-> Len(SelectSeq(deltas, LAMBDA f : workdir_patch(head_tree, w, f) # <<>>)), insertions |-> count("+"),
                        deletions |-> count("-")],
             contributors |-> <<>>,
             total_files |-> Len(deltas),
             filtered_files |-> Len(deltas)]] : is_binary \in flags}

\* the possible outcomes of get_working_tree_diff's closure on store r with
\* HEAD h and working copy w
get_working_tree_diff(r, h, w, path) ==
  IF ResolveHead(r, h) = None
  THEN {[ok |-> FALSE, error |-> "Internal", response |-> NoBody]}
  ELSE
    LET head_tree == HeadTree(r, h)
        pathspec == IF path.some THEN path.v ELSE RootPath
        deltas == WorkdirDeltas(head_tree, w, pathspec)
        flags == {b \in [1..Len(deltas) -> BOOLEAN] :
                    \A k \in 1..Len(deltas) :
                      b[k] \in IsBinaryFlags(Blob(deltas[k], head_tree[deltas[k]]),
                                             Blob(deltas[k], w.workdir[deltas[k]]))}
        count(origin) ==
          LET RECURSIVE sum(_)
              sum(k) == IF k = 0 THEN 0
                        ELSE CountOrigin(workdir_patch(head_tree, w, deltas[k]), origin)
                               + sum(k - 1)
          IN  sum(Len(deltas))
    IN  {[ok |-> TRUE, error |-> "",
          response |->
            [from_commit |-> Some(ResolveHead(r, h)), to_commit |-> "WORKING_TREE",
             path |-> path,
             files |-> [k \in 1..Len(deltas) |->
                          workdir_file_diff(deltas[k], head_tree, w, is_binary[k])],
             stats |-> [files_changed |-> Len(deltas), insertions |-> count("+"),
                        deletions |-> count("-")],
             contributors |-> <<>>,
             total_files |-> Len(deltas),
             filtered_files |-> Len(deltas)]] : is_binary \in flags}

(***************************************************************************)
(* The HTTP status of an error (error.rs).                                 *)
(***************************************************************************)
\* the status of the Conflict class of errors; the CheckoutConflict variant
\* that repository.rs returns is not among the variants of error.rs
ConflictStatus == 409

HttpStatusAllInternal(error) == 500

\* AppError::into_response
http_status(error) ==
  CASE error = "Git" -> 500
    [] error = "RepoNotFound" -> 404
    [] error = "PathNotFound" -> 404
    [] error = "CommitNotFound" -> 404
    [] error = "InvalidPath" -> 400
    [] error = "Internal" -> 500
    [] error = "CheckoutConflict" -> ConflictStatus

(***************************************************************************)
(* The server state.                                                       *)
(***************************************************************************)
\* the worker threads serving requests
Workers == {1, 2}

\* addresses of GitRepository objects: the shared one and one being opened
\* by each worker
ObjIds == {1, 2, 3}

VARIABLES
  head,     \* per store on disk: its HEAD
  wc,       \* per store on disk: its index, its files, the local branches added
  objs,     \* per address: the GitRepository object there, or NoObj
  active,   \* the address inside the SharedRepo RwLock
  rw,       \* the RwLock: the workers holding read guards, the write guard's holder
  pc,       \* per worker: its position in the handler it runs
  my,       \* per worker: the address of the object it works on
  resp      \* per worker: the result its handler is about to return

vars == <<head, wc, objs, active, rw, pc, my, resp>>

\* a Mutex is its holder (repo_lock, cache_lock) and its poison flag, set
\* when a guard is dropped by a panicking thread
NoObj ==
  [store |-> "", path |-> "", cache |-> NoCache, repo_lock |-> None, cache_lock |-> None,
   repo_poisoned |-> FALSE, cache_poisoned |-> FALSE]

\* GitRepository::open: the store handle, the path, no cache, fresh mutexes
open(path) ==
  [store |-> path, path |-> path, cache |-> NoCache, repo_lock |-> None, cache_lock |-> None,
   repo_poisoned |-> FALSE, cache_poisoned |-> FALSE]

NoArgs == [path |-> NoneArg, limit |-> 0, offset |-> 0, exclude_authors |-> NoneArg]

\* what a handler is about to return, with what the request did: the head
\* it resolved, whether it rebuilt the snapshot, whether it walked the
\* snapshot for a path index, the commits the attribution walk visited and
\* the authors it found for each file, the error of a failed request
NoResponse ==
  [kind |-> "none", ok |-> TRUE, error |-> "", head_seen |-> None, rebuilt |-> FALSE,
   walked |-> FALSE, visited |-> <<>>, file_authors |-> <<>>, args |-> NoArgs, body |-> NoBody]

Init ==
  /\ head = [r \in RepoPaths |-> HeadBranch("main")]
  /\ wc = [r \in RepoPaths |-> CleanCopy(BranchTip(r).main)]
  /\ objs = [o \in ObjIds |-> IF o = 1 THEN open("A") ELSE NoObj]
  /\ active = 1
  /\ rw = [readers |-> {}, writer |-> None]
  /\ pc = [t \in Workers |-> "idle"]
  /\ my = [t \in Workers |-> None]
  /\ resp = [t \in Workers |-> NoResponse]

(***************************************************************************)
(* A change of a store's HEAD by another process (git checkout, git        *)
(* branch -D, ...).                                                        *)
(***************************************************************************)
ExternalHeadChange(r, h) ==
  /\ h # head[r]
  /\ head' = [head EXCEPT ![r] = h]
  /\ UNCHANGED <<wc, objs, active, rw, pc, my, resp>>

(***************************************************************************)
(* Route handlers taking the read guard (routes/*.rs): repo.read().        *)
(***************************************************************************)
HandlerKinds == {"gc", "diff", "co"}

ReadGuard(t, kind) ==
  /\ pc[t] = "idle"
  /\ rw.writer = None
  /\ rw' = [rw EXCEPT !.readers = @ \cup {t}]
  /\ my' = [my EXCEPT ![t] = active]
  /\ pc' = [pc EXCEPT ![t] = kind \o "_read"]
  /\ UNCHANGED <<head, wc, objs, active, resp>>

(***************************************************************************)
(* get_commits -> GitRepository::with_cache.                               *)
(***************************************************************************)
WithCacheLockRepo(t) ==
  /\ pc[t] = "gc_read"
  /\ objs[my[t]].repo_lock = None
  /\ ~objs[my[t]].repo_poisoned
  /\ objs' = [objs EXCEPT ![my[t]].repo_lock = t]
  /\ pc' = [pc EXCEPT ![t] = "gc_repo"]
  /\ UNCHANGED <<head, wc, active, rw, my, resp>>

WithCacheLockCache(t) ==
  /\ pc[t] = "gc_repo"
  /\ objs[my[t]].cache_lock = None
  /\ ~objs[my[t]].cache_poisoned
  /\ objs' = [objs EXCEPT ![my[t]].cache_lock = t]
  /\ pc' = [pc EXCEPT ![t] = "gc_cache"]
  /\ UNCHANGED <<head, wc, active, rw, my, resp>>

\* needs_rebuild, build, f(cache, &repo); a panic inside f leaves the cache
\* as f had it and starts unwinding
WithCacheBody(t, path, limit, offset, exclude_authors) ==
  /\ pc[t] = "gc_cache"
  /\ LET o == objs[my[t]]
         h == head[o.store]
     IN  \E out \in with_cache(o.cache, o.store, h, path, limit, offset, exclude_authors) :
           /\ objs' = [objs EXCEPT ![my[t]].cache = out.cache]
           /\ resp' = [resp EXCEPT ![t] =
                         [kind |-> "commits", ok |-> out.ok,
                          head_seen |-> ResolveHead(o.store, h),
                          rebuilt |-> out.rebuilt, walked |-> out.walked,
                          error |-> IF out.ok THEN "" ELSE IF out.panicked THEN "panic" ELSE "Git",
                          visited |-> <<>>, file_authors |-> <<>>,
                          args |-> [path |-> path, limit |-> limit, offset |-> offset,
                                    exclude_authors |-> exclude_authors],
                          body |-> out.response]]
           /\ pc' = [pc EXCEPT ![t] = IF out.panicked THEN "gc_panic" ELSE "gc_ret"]
  /\ UNCHANGED <<head, wc, active, rw, my>>

WithCacheDropRepoFirst(t) ==
  /\ pc[t] = "gc_ret"
  /\ objs' = [objs EXCEPT ![my[t]].repo_lock = None]
  /\ pc' = [pc EXCEPT ![t] = "gc_ret2"]
  /\ UNCHANGED <<head, wc, active, rw, my, resp>>

\* with_cache returns: cache_guard is dropped first ...
WithCacheDropCache(t) ==
  /\ pc[t] = "gc_ret"
  /\ objs' = [objs EXCEPT ![my[t]].cache_lock = None]
  /\ pc' = [pc EXCEPT ![t] = "gc_ret2"]
  /\ UNCHANGED <<head, wc, active, rw, my, resp>>

\* a handler whose read guard is never dropped
WithCacheReturnKeepsReadGuard(t) ==
  /\ pc[t] = "gc_ret2"
  /\ objs' = [objs EXCEPT ![my[t]].repo_lock = None]
  /\ my' = [my EXCEPT ![t] = None]
  /\ resp' = [resp EXCEPT ![t] = NoResponse]
  /\ pc' = [pc EXCEPT ![t] = "idle"]
  /\ UNCHANGED <<head, wc, active, rw>>

\* ... then the store guard; the handler returns the response and its read
\* guard is dropped
WithCacheReturn(t) ==
  /\ pc[t] = "gc_ret2"
  /\ objs' = [objs EXCEPT ![my[t]].repo_lock = None]
  /\ rw' = [rw EXCEPT !.readers = @ \ {t}]
  /\ my' = [my EXCEPT ![t] = None]
  /\ resp' = [resp EXCEPT ![t] = NoResponse]
  /\ pc' = [pc EXCEPT ![t] = "idle"]
  /\ UNCHANGED <<head, wc, active>>

\* unwinding out of with_cache: cache_guard is dropped by the panicking
\* thread, which poisons the cache mutex ...
PanicDropCache(t) ==
  /\ pc[t] = "gc_panic"
  /\ objs' = [objs EXCEPT ![my[t]].cache_lock = None, ![my[t]].cache_poisoned = TRUE]
  /\ pc' = [pc EXCEPT ![t] = "gc_panic2"]
  /\ UNCHANGED <<head, wc, active, rw, my, resp>>

\* ... then the store guard, which poisons the store mutex; the read guard
\* is dropped without poisoning the RwLock and the task ends without a response
PanicDropRepo(t) ==
  /\ pc[t] = "gc_panic2"
  /\ objs' = [objs EXCEPT ![my[t]].repo_lock = None, ![my[t]].repo_poisoned = TRUE]
  /\ rw' = [rw EXCEPT !.readers = @ \ {t}]
  /\ my' = [my EXCEPT ![t] = None]
  /\ resp' = [resp EXCEPT ![t] = NoResponse]
  /\ pc' = [pc EXCEPT ![t] = "idle"]
  /\ UNCHANGED <<head, wc, active>>

\* a lock() that takes a poisoned mutex as if it were sound
WithCacheLockRepoIgnorePoison(t) ==
  /\ pc[t] = "gc_read"
  /\ objs[my[t]].repo_lock = None
  /\ objs[my[t]].repo_poisoned
  /\ objs' = [objs EXCEPT ![my[t]].repo_lock = t]
  /\ pc' = [pc EXCEPT ![t] = "gc_repo"]
  /\ UNCHANGED <<head, wc, active, rw, my, resp>>

\* self.repo.lock() on a poisoned mutex: with_cache returns
\* Internal("Repo lock poisoned")
WithCacheLockRepoPoisoned(t) ==
  /\ pc[t] = "gc_read"
  /\ objs[my[t]].repo_lock = None
  /\ objs[my[t]].repo_poisoned
  /\ resp' = [resp EXCEPT ![t] = [NoResponse EXCEPT !.kind = "commits", !.ok = FALSE, !.error = "Internal"]]
  /\ pc' = [pc EXCEPT ![t] = "gc_poisoned"]
  /\ UNCHANGED <<head, wc, objs, active, rw, my>>

\* the handler returns the error and its read guard is dropped
PoisonedReturn(t) ==
  /\ pc[t] \in {"gc_poisoned", "st_poisoned"}
  /\ rw' = [rw EXCEPT !.readers = @ \ {t}]
  /\ my' = [my EXCEPT ![t] = None]
  /\ resp' = [resp EXCEPT ![t] = NoResponse]
  /\ pc' = [pc EXCEPT ![t] = "idle"]
  /\ UNCHANGED <<head, wc, objs, active>>

(***************************************************************************)
(* Operations on the store handle alone: with_repo (get_diff, tree         *)
(* listing, directory info) and the methods that lock self.repo themselves *)
(* (checkout_branch, get_blame, list_branches, info).                      *)
(***************************************************************************)
\* the handlers that lock the store mutex alone: where they are before
\* self.repo.lock() and where after it
UnderStoreGuard ==
  [diff_read |-> "diff_repo", co_read |-> "co_repo", cr_read |-> "cr_repo", wt_read |-> "wt_repo",
   lc_read |-> "lc_repo"]

LockRepoNoWait(t) ==
  /\ pc[t] \in DOMAIN UnderStoreGuard
  /\ objs' = [objs EXCEPT ![my[t]].repo_lock = t]
  /\ pc' = [pc EXCEPT ![t] = UnderStoreGuard[pc[t]]]
  /\ UNCHANGED <<head, wc, active, rw, my, resp>>

LockRepo(t) ==
  /\ pc[t] \in DOMAIN UnderStoreGuard
  /\ objs[my[t]].repo_lock = None
  /\ ~objs[my[t]].repo_poisoned
  /\ objs' = [objs EXCEPT ![my[t]].repo_lock = t]
  /\ pc' = [pc EXCEPT ![t] = UnderStoreGuard[pc[t]]]
  /\ UNCHANGED <<head, wc, active, rw, my, resp>>

\* self.repo.lock() on a poisoned mutex: with_repo, checkout_branch,
\* checkout_remote_branch return Internal("Lock poisoned")
LockRepoPoisoned(t) ==
  /\ pc[t] \in DOMAIN UnderStoreGuard
  /\ objs[my[t]].repo_lock = None
  /\ objs[my[t]].repo_poisoned
  /\ resp' = [resp EXCEPT ![t] = [NoResponse EXCEPT !.kind = "store", !.ok = FALSE, !.error = "Internal"]]
  /\ pc' = [pc EXCEPT ![t] = "st_poisoned"]
  /\ UNCHANGED <<head, wc, objs, active, rw, my>>

\* checkout_branch, checkout_remote_branch, get_working_tree_diff or the
\* listing returns: the store guard is dropped, the handler returns the
\* response and its read guard is dropped
RepoReturn(t) ==
  /\ pc[t] \in {"co_ret", "cr_ret", "wt_ret", "lc_ret"}
  /\ objs' = [objs EXCEPT ![my[t]].repo_lock = None]
  /\ rw' = [rw EXCEPT !.readers = @ \ {t}]
  /\ my' = [my EXCEPT ![t] = None]
  /\ resp' = [resp EXCEPT ![t] = NoResponse]
  /\ pc' = [pc EXCEPT ![t] = "idle"]
  /\ UNCHANGED <<head, wc, active>>

\* get_diff's closure under the store guard: the tree diff, the file
\* contents and hunks, the attribution walk
GetDiffBody(t, from_commit, to_commit, path, exclude_authors) ==
  /\ pc[t] = "diff_repo"
  /\ \E out \in get_diff(objs[my[t]].store, from_commit, to_commit, path) :
       resp' = [resp EXCEPT ![t] =
                  [NoResponse EXCEPT !.kind = "diff", !.ok = out.ok, !.error = out.error,
                     !.visited = out.visited, !.file_authors = out.file_authors,
                     !.args = [from_commit |-> from_commit, to_commit |-> to_commit,
                               path |-> path, exclude_authors |-> exclude_authors],
                     !.body = out.response]]
  /\ pc' = [pc EXCEPT ![t] = "diff_ret"]
  /\ UNCHANGED <<head, wc, objs, active, rw, my>>

\* with_repo returns and the store guard is dropped; the route handler
\* filters the files of an Ok response by author
DiffFilter(t) ==
  /\ pc[t] = "diff_ret"
  /\ objs' = [objs EXCEPT ![my[t]].repo_lock = None]
  /\ resp' = IF resp[t].ok
             THEN [resp EXCEPT ![t].body = filter_by_authors(@, resp[t].args.exclude_authors)]
             ELSE resp
  /\ pc' = [pc EXCEPT ![t] = "diff_out"]
  /\ UNCHANGED <<head, wc, active, rw, my>>

\* the handler returns the response or the error and its read guard is dropped
DiffReturn(t) ==
  /\ pc[t] = "diff_out"
  /\ rw' = [rw EXCEPT !.readers = @ \ {t}]
  /\ my' = [my EXCEPT ![t] = None]
  /\ resp' = [resp EXCEPT ![t] = NoResponse]
  /\ pc' = [pc EXCEPT ![t] = "idle"]
  /\ UNCHANGED <<head, wc, objs, active>>

\* checkout_branch under the store guard: find the branch, refuse when the
\* status of the working copy shows changed tracked files, check out the
\* tree, set HEAD
CheckoutBody(t, branch_name) ==
  /\ pc[t] = "co_repo"
  /\ LET r == objs[my[t]].store
         out == checkout_branch(r, head[r], wc[r], branch_name)
     IN  /\ head' = [head EXCEPT ![r] = out.head]
         /\ wc' = [wc EXCEPT ![r] = out.wc]
         /\ resp' = [resp EXCEPT ![t] =
                       [NoResponse EXCEPT !.kind = "checkout", !.ok = out.ok,
                                          !.error = out.error,
                                          !.args = [branch |-> branch_name]]]
  /\ pc' = [pc EXCEPT ![t] = "co_ret"]
  /\ UNCHANGED <<objs, active, rw, my>>

\* checkout_remote_branch under the store guard
CheckoutRemoteBody(t, remote_branch, local_name) ==
  /\ pc[t] = "cr_repo"
  /\ LET r == objs[my[t]].store
         out == checkout_remote_branch(r, head[r], wc[r], remote_branch, local_name)
     IN  /\ head' = [head EXCEPT ![r] = out.head]
         /\ wc' = [wc EXCEPT ![r] = out.wc]
         /\ resp' = [resp EXCEPT ![t] =
                       [NoResponse EXCEPT !.kind = "checkout_remote", !.ok = out.ok,
                                          !.error = out.error,
                                          !.args = [remote_branch |-> remote_branch,
                                                    local_name |-> local_name]]]
  /\ pc' = [pc EXCEPT ![t] = "cr_ret"]
  /\ UNCHANGED <<objs, active, rw, my>>

\* The same two methods step by step, with the failures of the store's
\* writes: CheckoutBody and CheckoutRemoteBody are these steps taken at once
\* when no write fails.
\* checkout_branch up to the status check: nothing is written
CheckoutBranchChecks(t, branch_name) ==
  /\ pc[t] = "co_repo"
  /\ LET r == objs[my[t]].store
         out == checkout_branch(r, head[r], wc[r], branch_name)
     IN  /\ resp' = [resp EXCEPT ![t] =
                       [NoResponse EXCEPT !.kind = "checkout", !.ok = out.ok,
                                          !.error = out.error,
                                          !.args = [branch |-> branch_name]]]
         /\ pc' = [pc EXCEPT ![t] = IF out.ok THEN "co_tree" ELSE "co_ret"]
  /\ UNCHANGED <<head, wc, objs, active, rw, my>>

\* checkout_remote_branch up to repo.branch and set_upstream: the local
\* branch is created
CheckoutRemoteBranchChecks(t, remote_branch, local_name) ==
  /\ pc[t] = "cr_repo"
  /\ LET r == objs[my[t]].store
         out == checkout_remote_branch(r, head[r], wc[r], remote_branch, local_name)
     IN  /\ wc' = IF out.ok THEN [wc EXCEPT ![r].created = @ \cup {local_name}] ELSE wc
         /\ resp' = [resp EXCEPT ![t] =
                       [NoResponse EXCEPT !.kind = "checkout_remote", !.ok = out.ok,
                                          !.error = out.error,
                                          !.args = [remote_branch |-> remote_branch,
                                                    local_name |-> local_name]]]
         /\ pc' = [pc EXCEPT ![t] = IF out.ok THEN "co_tree" ELSE "cr_ret"]
  /\ UNCHANGED <<head, objs, active, rw, my>>

\* the branch a checkout in progress is to put HEAD on
TargetBranch(t) ==
  IF resp[t].kind = "checkout" THEN resp[t].args.branch ELSE resp[t].args.local_name

\* commit.tree() of the commit the target branch points at
TargetTree(t) ==
  LET r == objs[my[t]].store
  IN  IF resp[t].kind = "checkout"
      THEN Commit(ResolveHead(r, HeadBranch(resp[t].args.branch))).tree
      ELSE Commit(RemoteTip(r)[resp[t].args.remote_branch]).tree

\* the working copies a checkout_tree that fails may leave: some of the
\* files written, the index written for them or not at all
PartialCheckouts(w, tree) ==
  {[w EXCEPT !.workdir = [f \in Files |-> IF f \in S THEN checkout_tree(w, tree).workdir[f]
                                          ELSE w.workdir[f]],
             !.index = [f \in Files |-> IF f \in S /\ index_written THEN tree[f]
                                        ELSE w.index[f]]] :
     S \in SUBSET Files \ {Files}, index_written \in BOOLEAN}

\* a checkout that repoints HEAD before it writes the working copy
CheckoutTreeAfterSetHead(t) ==
  /\ pc[t] = "co_tree"
  /\ LET r == objs[my[t]].store
     IN  /\ head' = [head EXCEPT ![r] = HeadBranch(TargetBranch(t))]
         /\ \/ /\ wc' = [wc EXCEPT ![r] = checkout_tree(@, TargetTree(t))]
               /\ pc' = [pc EXCEPT ![t] = "co_head"]
               /\ UNCHANGED resp
            \/ /\ \E w \in PartialCheckouts(wc[r], TargetTree(t)) : wc' = [wc EXCEPT ![r] = w]
               /\ resp' = [resp EXCEPT ![t].ok = FALSE, ![t].error = "Git"]
               /\ pc' = [pc EXCEPT ![t] = "co_ret"]
  /\ UNCHANGED <<objs, active, rw, my>>

\* repo.checkout_tree(tree, force)?: the working copy becomes the tree, or
\* the write fails part of the way and the method returns the Git error
CheckoutTree(t) ==
  /\ pc[t] = "co_tree"
  /\ LET r == objs[my[t]].store
     IN  \/ /\ wc' = [wc EXCEPT ![r] = checkout_tree(@, TargetTree(t))]
            /\ pc' = [pc EXCEPT ![t] = "co_head"]
            /\ UNCHANGED resp
         \/ /\ \E w \in PartialCheckouts(wc[r], TargetTree(t)) : wc' = [wc EXCEPT ![r] = w]
            /\ resp' = [resp EXCEPT ![t].ok = FALSE, ![t].error = "Git"]
            /\ pc' = [pc EXCEPT ![t] = "co_ret"]
  /\ UNCHANGED <<head, objs, active, rw, my>>

\* repo.set_head(refname)?: HEAD names the branch, or the reference cannot
\* be written and the method returns the Git error
SetHead(t) ==
  /\ pc[t] = "co_head"
  /\ \/ /\ head' = [head EXCEPT ![objs[my[t]].store] = HeadBranch(TargetBranch(t))]
        /\ UNCHANGED resp
     \/ /\ resp' = [resp EXCEPT ![t].ok = FALSE, ![t].error = "Git"]
        /\ UNCHANGED head
  /\ pc' = [pc EXCEPT ![t] = "co_ret"]
  /\ UNCHANGED <<wc, objs, active, rw, my>>

\* get_working_tree_diff's closure under the store guard
WorkingTreeDiffBody(t, path) ==
  /\ pc[t] = "wt_repo"
  /\ LET r == objs[my[t]].store
     IN  \E out \in get_working_tree_diff(r, head[r], wc[r], path) :
           resp' = [resp EXCEPT ![t] =
                      [NoResponse EXCEPT !.kind = "working_diff", !.ok = out.ok,
                         !.error = out.error,
                         !.head_seen = ResolveHead(r, head[r]),
                         !.args = [NoArgs EXCEPT !.path = path],
                         !.body = out.response]]
  /\ pc' = [pc EXCEPT ![t] = "wt_ret"]
  /\ UNCHANGED <<head, wc, objs, active, rw, my>>

\* the batched last-commit lookup under the store guard (the listing passes
\* the paths of its entries, tree.rs:67-69; here any list of paths)
GetLastCommitsBody(t, paths) ==
  /\ pc[t] = "lc_repo"
  /\ LET r == objs[my[t]].store
         out == get_last_commits_for_paths(ResolveHead(r, head[r]), paths)
     IN  resp' = [resp EXCEPT ![t] =
                    [kind |-> "last_commits", ok |-> out.ok,
                     error |-> IF out.ok THEN "" ELSE "Git",
                     head_seen |-> ResolveHead(r, head[r]),
                     rebuilt |-> FALSE, walked |-> FALSE,
                     visited |-> <<>>, file_authors |-> <<>>,
                     args |-> [paths |-> paths],
                     body |-> out.results]]
  /\ pc' = [pc EXCEPT ![t] = "lc_ret"]
  /\ UNCHANGED <<head, wc, objs, active, rw, my>>

(***************************************************************************)
(* Changes of a store's working copy by its user: an editor, git add,      *)
(* git rm.                                                                 *)
(***************************************************************************)
WriteFile(r, f, v) ==
  /\ wc[r].workdir[f] # v
  /\ wc' = [wc EXCEPT ![r].workdir[f] = v]
  /\ UNCHANGED <<head, objs, active, rw, pc, my, resp>>

StageFile(r, f) ==
  /\ wc[r].workdir[f] # 0
  /\ wc[r].index[f] # wc[r].workdir[f]
  /\ wc' = [wc EXCEPT ![r].index[f] = wc[r].workdir[f]]
  /\ UNCHANGED <<head, objs, active, rw, pc, my, resp>>

RemoveFile(r, f) ==
  /\ wc[r].index[f] # 0
  /\ wc' = [wc EXCEPT ![r].index[f] = 0, ![r].workdir[f] = 0]
  /\ UNCHANGED <<head, objs, active, rw, pc, my, resp>>

(***************************************************************************)
(* switch_repository (routes/filesystem.rs).                               *)
(***************************************************************************)
\* an address no object lives at
Free(o) == objs[o] = NoObj /\ o # active /\ \A u \in Workers : my[u] # o

\* a switch that empties the shared object before it opens the new one
SwitchOpenClearsFirst(t, path) ==
  /\ pc[t] = "idle"
  /\ IF path \in RepoPaths
     THEN /\ \E o \in ObjIds :
               /\ Free(o)
               /\ \A o2 \in ObjIds : Free(o2) => o <= o2
               /\ objs' = [objs EXCEPT ![o] = open(path)]
               /\ my' = [my EXCEPT ![t] = o]
          /\ pc' = [pc EXCEPT ![t] = "sw_open"]
          /\ UNCHANGED resp
     ELSE /\ resp' = [resp EXCEPT ![t] = [NoResponse EXCEPT !.kind = "switch", !.ok = FALSE,
                                                            !.error = "RepoNotFound"]]
          /\ pc' = [pc EXCEPT ![t] = "sw_err"]
          /\ objs' = [objs EXCEPT ![active].cache = NoCache]
          /\ UNCHANGED my
  /\ UNCHANGED <<head, wc, active, rw>>

\* GitRepository::open(&request.path)?
SwitchOpen(t, path) ==
  /\ pc[t] = "idle"
  /\ IF path \in RepoPaths
     THEN /\ \E o \in ObjIds :
               /\ Free(o)
               /\ \A o2 \in ObjIds : Free(o2) => o <= o2
               /\ objs' = [objs EXCEPT ![o] = open(path)]
               /\ my' = [my EXCEPT ![t] = o]
          /\ pc' = [pc EXCEPT ![t] = "sw_open"]
          /\ UNCHANGED resp
     ELSE /\ resp' = [resp EXCEPT ![t] = [NoResponse EXCEPT !.kind = "switch", !.ok = FALSE,
                                                            !.error = "RepoNotFound"]]
          /\ pc' = [pc EXCEPT ![t] = "sw_err"]
          /\ UNCHANGED <<objs, my>>
  /\ UNCHANGED <<head, wc, active, rw>>

\* the handler returns the RepoNotFound error
SwitchFail(t) ==
  /\ pc[t] = "sw_err"
  /\ resp' = [resp EXCEPT ![t] = NoResponse]
  /\ pc' = [pc EXCEPT ![t] = "idle"]
  /\ UNCHANGED <<head, wc, objs, active, rw, my>>

\* new_repo.info()?: locks the new object's store mutex
InfoLock(t) ==
  /\ pc[t] = "sw_open"
  /\ objs[my[t]].repo_lock = None
  /\ ~objs[my[t]].repo_poisoned
  /\ objs' = [objs EXCEPT ![my[t]].repo_lock = t]
  /\ pc' = [pc EXCEPT ![t] = "sw_info"]
  /\ UNCHANGED <<head, wc, active, rw, my, resp>>

\* info() reads the head and returns, dropping the guard
InfoBody(t) ==
  /\ pc[t] = "sw_info"
  /\ objs' = [objs EXCEPT ![my[t]].repo_lock = None]
  /\ resp' = [resp EXCEPT ![t] =
                [NoResponse EXCEPT !.kind = "switch",
                   !.head_seen = ResolveHead(objs[my[t]].store, head[objs[my[t]].store])]]
  /\ pc' = [pc EXCEPT ![t] = "sw_got"]
  /\ UNCHANGED <<head, wc, active, rw, my>>

WriteGuardNoWait(t) ==
  /\ pc[t] = "sw_got"
  /\ rw' = [rw EXCEPT !.writer = t]
  /\ pc' = [pc EXCEPT ![t] = "sw_write"]
  /\ UNCHANGED <<head, wc, objs, active, my, resp>>

\* repo.write(): waits until no guard is held
WriteGuard(t) ==
  /\ pc[t] = "sw_got"
  /\ rw.writer = None
  /\ rw.readers = {}
  /\ rw' = [rw EXCEPT !.writer = t]
  /\ pc' = [pc EXCEPT ![t] = "sw_write"]
  /\ UNCHANGED <<head, wc, objs, active, my, resp>>

SwitchAssignKeepCache(t) ==
  /\ pc[t] = "sw_write"
  /\ objs' = [objs EXCEPT ![active] = NoObj,
                          ![my[t]] = [objs[my[t]] EXCEPT !.cache = objs[active].cache]]
  /\ active' = my[t]
  /\ rw' = [rw EXCEPT !.writer = None]
  /\ my' = [my EXCEPT ![t] = None]
  /\ resp' = [resp EXCEPT ![t] = NoResponse]
  /\ pc' = [pc EXCEPT ![t] = "idle"]
  /\ UNCHANGED <<head, wc>>

\* *repo_guard = new_repo: the old object is dropped; the handler returns the
\* info and the write guard is released
SwitchAssign(t) ==
  /\ pc[t] = "sw_write"
  /\ objs' = [objs EXCEPT ![active] = NoObj]
  /\ active' = my[t]
  /\ rw' = [rw EXCEPT !.writer = None]
  /\ my' = [my EXCEPT ![t] = None]
  /\ resp' = [resp EXCEPT ![t] = NoResponse]
  /\ pc' = [pc EXCEPT ![t] = "idle"]
  /\ UNCHANGED <<head, wc>>

(***************************************************************************)
(* Requests and specifications.                                            *)
(***************************************************************************)
PathArgs == {NoneArg} \cup {Some(p) : p \in Paths}

ExcludeLists == {<<>>, <<"a">>, <<"b", "x", "b">>, <<"a", "b">>}

ExcludeArgs == {NoneArg} \cup {Some(s) : s \in ExcludeLists}

\* the steps of the handlers other than listRevisions' query
Steps(t) ==
  \/ \E k \in HandlerKinds : ReadGuard(t, k)
  \/ WithCacheLockRepo(t)
  \/ WithCacheLockCache(t)
  \/ WithCacheDropCache(t)
  \/ WithCacheReturn(t)
  \/ LockRepo(t)
  \/ RepoReturn(t)
  \/ \E to_commit \in {3, 12} : GetDiffBody(t, NoneArg, to_commit, NoneArg, NoneArg)
  \/ DiffFilter(t)
  \/ DiffReturn(t)
  \/ \E b \in {"main", "dev", "nope"} : CheckoutBody(t, b)
  \/ \E path \in RepoPaths \cup {NotARepo} : SwitchOpen(t, path)
  \/ SwitchFail(t)
  \/ InfoLock(t)
  \/ InfoBody(t)
  \/ WriteGuard(t)
  \/ SwitchAssign(t)

\* every request, any interleaving of two workers; listRevisions asks for
\* the first page of the root or of f; the head of store A is also moved
\* from outside
Next ==
  \/ \E h \in {HeadBranch(UnbornBranch), HeadDetached(2)} : ExternalHeadChange("A", h)
  \/ \E t \in Workers : Steps(t)
  \/ \E t \in Workers, path \in {NoneArg, Some(<<"f">>)} :
       WithCacheBody(t, path, MaxLimit, 0, NoneArg)

Spec == Init /\ [][Next]_vars

\* one worker, no repository switch: every listRevisions request (offsets up
\* to the largest word), every head
NextQ ==
  \/ \E h \in HeadValues("A") : ExternalHeadChange("A", h)
  \/ ReadGuard(1, "gc")
  \/ WithCacheLockRepo(1)
  \/ WithCacheLockCache(1)
  \/ \E path \in PathArgs, limit \in 0..MaxLimit, offset \in 0..MaxOffset \cup {UsizeMax},
        exclude_authors \in ExcludeArgs :
       WithCacheBody(1, path, limit, offset, exclude_authors)
  \/ WithCacheDropCache(1)
  \/ WithCacheReturn(1)
  \/ PanicDropCache(1)
  \/ PanicDropRepo(1)
  \/ WithCacheLockRepoPoisoned(1)
  \/ PoisonedReturn(1)

SpecQ == Init /\ [][NextQ]_vars

\* the identifiers a diff request may carry
OidArgs == CommitsOf("A") \cup {UnknownOid, MalformedOid, CorruptOid}

FromArgs == {NoneArg} \cup {Some(c) : c \in OidArgs}

DiffExcludeArgs == {NoneArg, Some(<<"">>), Some(<<"a">>), Some(<<"b">>), Some(<<"b", "a">>)}

\* one worker, store A: every diff request
NextD ==
  \/ ReadGuard(1, "diff")
  \/ LockRepo(1)
  \/ \E from_commit \in FromArgs, to_commit \in OidArgs,
        path \in PathArgs, exclude_authors \in DiffExcludeArgs :
       GetDiffBody(1, from_commit, to_commit, path, exclude_authors)
  \/ DiffFilter(1)
  \/ DiffReturn(1)

SpecD == Init /\ [][NextD]_vars

\* what the user writes: f is deleted from disk, the binary g and the
\* non-UTF-8 d/h are written
UserWrites == {<<FileF, 0>>, <<FileG, 2>>, <<FileH, 2>>}

\* one worker, store A: the checkouts, the working-copy diff and the diff
\* of revision 3, while the user edits, stages and removes files and HEAD is
\* moved from outside
NextW ==
  \/ ExternalHeadChange("A", HeadBranch(UnbornBranch))
  \/ \E e \in UserWrites : WriteFile("A", e[1], e[2])
  \/ \E f \in Files : StageFile("A", f)
  \/ RemoveFile("A", FileF)
  \/ \E k \in {"co", "cr", "wt"} : ReadGuard(1, k)
  \/ LockRepo(1)
  \/ \E b \in {"main", "dev", TrackingBranch, "nope"} : CheckoutBody(1, b)
  \/ \E remote_branch \in {"origin/dev", "origin/nope"}, local_name \in {TrackingBranch, "main"} :
       CheckoutRemoteBody(1, remote_branch, local_name)
  \/ \E path \in {NoneArg, Some(<<"d">>)} : WorkingTreeDiffBody(1, path)
  \/ RepoReturn(1)
  \/ ReadGuard(1, "diff")
  \/ GetDiffBody(1, NoneArg, 3, NoneArg, NoneArg)
  \/ DiffFilter(1)
  \/ DiffReturn(1)

SpecW == Init /\ [][NextW]_vars

\* two workers, store A: listRevisions (an offset of the largest word makes
\* the page arithmetic overflow), the diff of revision 3 and checkouts, on
\* mutexes that a panicking request may have poisoned
NextP ==
  \/ ExternalHeadChange("A", HeadDetached(2))
  \/ \E t \in Workers :
       \/ \E k \in HandlerKinds : ReadGuard(t, k)
       \/ WithCacheLockRepo(t)
       \/ WithCacheLockCache(t)
       \/ \E path \in {NoneArg, Some(<<"f">>)}, offset \in {0, UsizeMax} :
            WithCacheBody(t, path, MaxLimit, offset, NoneArg)
       \/ WithCacheDropCache(t)
       \/ WithCacheReturn(t)
       \/ PanicDropCache(t)
       \/ PanicDropRepo(t)
       \/ WithCacheLockRepoPoisoned(t)
       \/ LockRepo(t)
       \/ LockRepoPoisoned(t)
       \/ PoisonedReturn(t)
       \/ GetDiffBody(t, NoneArg, 3, NoneArg, NoneArg)
       \/ DiffFilter(t)
       \/ DiffReturn(t)
       \/ \E b \in {"main", "dev"} : CheckoutBody(t, b)
       \/ RepoReturn(t)

SpecP == Init /\ [][NextP]_vars

\* one worker: the switch to store B, whose HEAD is moved from outside to
\* the merge 13 (its second parent's tree may fail to load) and back, and
\* listRevisions of the root, f and g
NextF ==
  \/ \E h \in {HeadDetached(13), HeadBranch("main"), HeadBranch("old")} : ExternalHeadChange("B", h)
  \/ SwitchOpen(1, "B")
  \/ InfoLock(1)
  \/ InfoBody(1)
  \/ WriteGuard(1)
  \/ SwitchAssign(1)
  \/ ReadGuard(1, "gc")
  \/ WithCacheLockRepo(1)
  \/ WithCacheLockCache(1)
  \/ \E path \in {NoneArg, Some(<<"f">>), Some(<<"g">>)}, limit \in 0..MaxLimit,
        offset \in 0..MaxOffset, exclude_authors \in {NoneArg, Some(<<"x">>)} :
       WithCacheBody(1, path, limit, offset, exclude_authors)
  \/ WithCacheDropCache(1)
  \/ WithCacheReturn(1)

SpecF == Init /\ [][NextF]_vars

\* one worker, store A: checkout_branch and checkout_remote_branch step by
\* step, any write of the store failing, while the user writes files and
\* HEAD is moved from outside
NextC ==
  \/ \E h \in {HeadBranch("main"), HeadBranch("dev")} : ExternalHeadChange("A", h)
  \/ WriteFile("A", FileF, 0)
  \/ WriteFile("A", FileF, 1)
  \/ \E k \in {"co", "cr"} : ReadGuard(1, k)
  \/ LockRepo(1)
  \/ \E b \in {"main", "dev", TrackingBranch, "nope"} : CheckoutBranchChecks(1, b)
  \/ \E remote_branch \in {"origin/dev", "origin/nope"}, local_name \in {TrackingBranch, "main"} :
       CheckoutRemoteBranchChecks(1, remote_branch, local_name)
  \/ CheckoutTree(1)
  \/ SetHead(1)
  \/ RepoReturn(1)

SpecC == Init /\ [][NextC]_vars

\* the steps of a request in flight that neither wait for a lock nor run a
\* store operation
Runs(t) ==
  \/ WithCacheLockCache(t)
  \/ WithCacheDropCache(t)
  \/ WithCacheReturn(t)
  \/ PanicDropCache(t)
  \/ PanicDropRepo(t)
  \/ WithCacheLockRepoPoisoned(t)
  \/ LockRepoPoisoned(t)
  \/ PoisonedReturn(t)
  \/ DiffFilter(t)
  \/ DiffReturn(t)
  \/ RepoReturn(t)
  \/ SwitchFail(t)
  \/ InfoLock(t)
  \/ InfoBody(t)
  \/ SwitchAssign(t)

\* the requests of the liveness specification: the first page of the root
\* and the page at the largest offset (which may panic), the diff of
\* commit 3, the checkout of main or dev
OffsetsL == {0, UsizeMax}

DiffToL == 3

BranchesL == {"main", "dev"}

\* the store operations: the closure of with_cache, of get_diff and of
\* checkout_branch, run under the store guard
StoreOperation(t) ==
  \/ \E offset \in OffsetsL : WithCacheBody(t, NoneArg, MaxLimit, offset, NoneArg)
  \/ GetDiffBody(t, NoneArg, DiffToL, NoneArg, NoneArg)
  \/ \E b \in BranchesL : CheckoutBody(t, b)

\* the positions at which a worker is inside a store operation
InStoreOperation(t) == pc[t] \in {"gc_cache", "diff_repo", "co_repo"}

\* two workers: listRevisions (also one that panics), diff, checkout and
\* switch requests in any interleaving
NextL ==
  \E t \in Workers :
    \/ \E k \in HandlerKinds : ReadGuard(t, k)
    \/ \E path \in {"B", NotARepo} : SwitchOpen(t, path)
    \/ WithCacheLockRepo(t)
    \/ LockRepo(t)
    \/ WriteGuard(t)
    \/ Runs(t)
    \/ StoreOperation(t)

\* each request runs to completion on its worker thread: a running thread
\* takes its next step (WF), a thread waiting for a lock that is free again
\* and again gets it at last (SF), and no thread stays inside a store
\* operation forever (store operations terminate)
Fairness ==
  \A t \in Workers :
    /\ WF_vars(Runs(t))
    /\ SF_vars(WithCacheLockRepo(t))
    /\ SF_vars(LockRepo(t))
    /\ SF_vars(WriteGuard(t))
    /\ []<>(~InStoreOperation(t))

SpecL == Init /\ [][NextL]_vars /\ Fairness

\* longest list of paths of a lookup
MaxPaths == 2

\* the paths a lookup asks for: files, a directory, a file in it, a path
\* below a file, a path that never existed
TargetPaths == {<<"f">>, <<"g">>, <<"d">>, <<"d", "h">>, <<"f", "x">>, <<"q">>}

PathLists == UNION {[1..n -> TargetPaths] : n \in 0..MaxPaths}

\* one worker, store A: every batched lookup, every head
NextH ==
  \/ \E h \in HeadValues("A") \cup {HeadDetached(2)} : ExternalHeadChange("A", h)
  \/ ReadGuard(1, "lc")
  \/ LockRepo(1)
  \/ \E paths \in PathLists : GetLastCommitsBody(1, paths)
  \/ RepoReturn(1)

SpecH == Init /\ [][NextH]_vars

(***************************************************************************)
(* Properties.                                                             *)
(***************************************************************************)
\* the workers whose listRevisions query has run and has not yet returned
Answering == {t \in Workers : pc[t] \in {"gc_ret", "gc_ret2"}}

Answered == {t \in Answering : resp[t].ok}

StoreOf(t) == objs[my[t]].store

CacheOf(t) == objs[my[t]].cache

PathKey(t) == IF resp[t].args.path.some THEN resp[t].args.path.v ELSE RootPath

\* C1: every answered listRevisions request is answered from a snapshot whose
\* captured head id is the head the request resolved under the store lock,
\* holding exactly the revisions reachable from it; a request that finds no
\* snapshot or an invalid one rebuilds before the query, and fails only when
\* the head does not resolve.
C1_ServedFromCurrentHead ==
  \A t \in Answering :
    IF resp[t].ok
    THEN /\ CacheOf(t) # NoCache
         /\ resp[t].head_seen # None
         /\ CacheOf(t).head_oid = resp[t].head_seen
         /\ {c.oid : c \in Range(CacheOf(t).all_commits)} = Ancestors(resp[t].head_seen)
         /\ Range(resp[t].body.commits) \subseteq Ancestors(resp[t].head_seen)
    ELSE resp[t].head_seen = None /\ resp[t].rebuilt

\* a request on store A rebuilt the snapshot after HEAD had moved to dev
C1_Witness ==
  \E t \in Answered :
    /\ resp[t].rebuilt
    /\ StoreOf(t) = "A"
    /\ resp[t].head_seen = 4
    /\ CacheOf(t).head_oid = 4

\* C2: the staleness guard reports a snapshot invalid exactly when the
\* store's head does not resolve to a commit or resolves to a commit other
\* than the captured head id.
C2_GuardIffHeadDiffers ==
  \A o \in ObjIds :
    objs[o].cache # NoCache =>
      LET cur == ResolveHead(objs[o].store, head[objs[o].store])
      IN  (~is_valid(objs[o].cache, objs[o].store, head[objs[o].store]))
            <=> (cur = None \/ cur # objs[o].cache.head_oid)

\* a snapshot exists while the store's head does not resolve
C2_Witness ==
  \E o \in ObjIds :
    /\ objs[o].cache # NoCache
    /\ ResolveHead(objs[o].store, head[objs[o].store]) = None
    /\ ~is_valid(objs[o].cache, objs[o].store, head[objs[o].store])

\* C3: a response never carries data of a repository other than the one
\* inside the shared lock: the object put there by a switch starts without a
\* snapshot, every snapshot holds only revisions and contributors of its own
\* store, and so do the pages and diffs returned.
C3_NoDataOfPreviousRepository ==
  /\ \A o \in ObjIds :
       /\ (o # active => objs[o].cache = NoCache)
       /\ objs[o].cache # NoCache =>
            /\ \A c \in Range(objs[o].cache.all_commits) : c.oid \in CommitsOf(objs[o].store)
            /\ \A p \in DOMAIN objs[o].cache.path_cache :
                 \A c \in Range(objs[o].cache.path_cache[p].contributors) :
                   c.email \in EmailsOf(objs[o].store)
  /\ \A t \in Answered :
       /\ Range(resp[t].body.commits) \subseteq CommitsOf(objs[active].store)
       /\ \A c \in Range(resp[t].body.contributors) : c.email \in EmailsOf(objs[active].store)
  /\ \A t \in Workers :
       (pc[t] \in {"diff_ret", "diff_out"} /\ resp[t].ok)
         => /\ resp[t].body.to_commit \in CommitsOf(objs[active].store)
            /\ \A c \in Range(resp[t].body.contributors) : c.email \in EmailsOf(objs[active].store)

\* after a switch to B (the server starts on A) a page of B's revisions is returned
C3_Witness ==
  \E t \in Answered :
    /\ objs[active].store = "B"
    /\ resp[t].body.commits = <<12, 11>>

\* C4: the object inside the lock is replaced whole and only under the
\* write guard: while the write guard is held no request is in flight, every
\* request in flight works on the object inside the lock, and an object's
\* path and snapshot always belong to its own store handle.
C4_SwitchIsAtomic ==
  /\ rw.writer # None => rw.readers = {}
  /\ \A t \in rw.readers : my[t] = active /\ objs[my[t]] # NoObj
  /\ \A o \in ObjIds :
       objs[o] # NoObj =>
         /\ objs[o].path = objs[o].store
         /\ objs[o].cache # NoCache => objs[o].cache.head_oid \in CommitsOf(objs[o].store)

\* a switch holds the write guard, about to replace an object that has a snapshot
C4_Witness ==
  /\ rw.writer # None
  /\ objs[active].cache # NoCache
  /\ objs[my[rw.writer]].store # objs[active].store

\* C5: whoever holds an object's cache lock also holds its store lock, so
\* the cache is checked, rebuilt and read by one request at a time.
C5_CacheLockInsideStoreLock ==
  /\ \A o \in ObjIds :
       objs[o].cache_lock # None => objs[o].repo_lock = objs[o].cache_lock
  /\ \A t \in Workers :
       pc[t] \in {"gc_cache", "gc_ret"} => objs[my[t]].cache_lock = t

\* a worker holds the cache lock while the other waits for the store lock
C5_Witness ==
  \E t, u \in Workers :
    /\ objs[active].cache_lock = t
    /\ pc[u] \in {"gc_read", "diff_read", "co_read"}

\* the worker is inside an operation on a store handle
InStoreOp(t) ==
  pc[t] \in {"gc_repo", "gc_cache", "gc_ret", "gc_ret2", "diff_repo", "diff_ret",
             "co_repo", "co_ret", "sw_info"}

\* C6, as stated: no two requests are inside a store operation at once.
C6_OneStoreOpSystemWide == Cardinality({t \in Workers : InStoreOp(t)}) <= 1

\* C6, amended: no two requests are inside a store operation on the same
\* GitRepository object at once, and each is inside while holding that
\* object's store mutex.
C6_OneStoreOpPerObject ==
  /\ \A t \in Workers : InStoreOp(t) => objs[my[t]].repo_lock = t
  /\ \A t, u \in Workers : (t # u /\ InStoreOp(t) /\ InStoreOp(u)) => my[t] # my[u]

\* a worker is inside a store operation while the other waits for the same mutex
C6_Witness ==
  \E t, u \in Workers :
    /\ InStoreOp(t)
    /\ pc[u] \in {"gc_read", "diff_read", "co_read"}
    /\ my[u] = my[t]

\* the email set a request excludes
Excluded(t) ==
  IF resp[t].args.exclude_authors.some THEN Range(resp[t].args.exclude_authors.v) ELSE {}

\* the path index the answer of worker t was read from
EntryOf(t) == CacheOf(t).path_cache[PathKey(t)]

\* C7: while a snapshot lives, a path index once inserted stays in the map
\* unchanged, and a request for a path already indexed runs no diff walk and
\* reports the stored index and contributors.
C7_PathIndexBuiltOnce ==
  [][/\ \A o \in ObjIds :
          (/\ objs[o].cache # NoCache
           /\ objs'[o].cache # NoCache
           /\ objs'[o].cache.head_oid = objs[o].cache.head_oid)
            => \A p \in DOMAIN objs[o].cache.path_cache :
                 /\ p \in DOMAIN objs'[o].cache.path_cache
                 /\ objs'[o].cache.path_cache[p] = objs[o].cache.path_cache[p]
     /\ \A t \in Workers :
          (/\ pc[t] = "gc_cache"
           /\ pc'[t] = "gc_ret"
           /\ resp'[t].ok
           /\ ~resp'[t].rebuilt
           /\ (IF resp'[t].args.path.some THEN resp'[t].args.path.v ELSE RootPath)
                \in DOMAIN objs[my[t]].cache.path_cache)
            => LET old == objs[my[t]].cache.path_cache[
                            IF resp'[t].args.path.some THEN resp'[t].args.path.v ELSE RootPath]
               IN  /\ ~resp'[t].walked
                   /\ resp'[t].body.total = Len(old.commit_indices)
                   /\ Len(resp'[t].body.contributors) = Len(old.contributors)
                   /\ \A k \in 1..Len(old.contributors) :
                        resp'[t].body.contributors[k].email = old.contributors[k].email
    ]_vars

\* a second request for path d is answered from the stored index
C7_Witness ==
  \E t \in Answered :
    /\ PathKey(t) = <<"d">>
    /\ ~resp[t].rebuilt
    /\ ~resp[t].walked
    /\ resp[t].body.total = 2

\* C8: whenever a snapshot exists its map holds the root path, whose index
\* is 0..N-1 for the N revisions of the snapshot; a listRevisions call
\* without a path (or with the empty path) reads it without a diff walk.
C8_RootIndexIsIdentity ==
  /\ \A o \in ObjIds :
       objs[o].cache # NoCache =>
         /\ RootPath \in DOMAIN objs[o].cache.path_cache
         /\ LET idx == objs[o].cache.path_cache[RootPath].commit_indices
            IN  /\ Len(idx) = Len(objs[o].cache.all_commits)
                /\ \A k \in 1..Len(idx) : idx[k] = k - 1
  /\ \A t \in Answered :
       PathKey(t) = RootPath =>
         /\ ~resp[t].walked
         /\ resp[t].body.total = Len(CacheOf(t).all_commits)

\* the five revisions of the merged head are listed without a path
C8_Witness ==
  \E t \in Answered :
    /\ ~resp[t].args.path.some
    /\ resp[t].body.total = 5
    /\ Len(CacheOf(t).all_commits) = 5

\* the revision at a snapshot position changes a file under path P with
\* respect to its first parent (the empty tree for a root revision)
Touches(cache, i, P) ==
  LET c == Commit(cache.all_commits[i + 1].oid)
      base == IF c.parents = <<>> THEN EmptyTree ELSE Commit(c.parents[1]).tree
  IN  \E f \in Files : IsPrefix(P, f) /\ base[f] # c.tree[f]

\* C9: the index of a non-root path holds exactly the snapshot positions of
\* the revisions touching the path, in increasing order; on the linear
\* history 1 <- 2 <- 3 the page for g is [3] and the page for f is [2].
C9_PathIndexIsTouchingSet ==
  /\ \A o \in ObjIds :
       \A P \in DOMAIN objs[o].cache.path_cache \ {RootPath} :
         LET idx == objs[o].cache.path_cache[P].commit_indices
             N == Len(objs[o].cache.all_commits)
         IN  /\ Range(idx) = {i \in 0..(N - 1) : Touches(objs[o].cache, i, P)}
             /\ \A k \in 1..(Len(idx) - 1) : idx[k] < idx[k + 1]
  /\ \A t \in Answered :
       (/\ resp[t].head_seen = 3
        /\ resp[t].args.offset = 0
        /\ resp[t].args.limit >= 1
        /\ Excluded(t) = {})
         => /\ PathKey(t) = <<"g">> => resp[t].body.commits = <<3>>
            /\ PathKey(t) = <<"f">> => resp[t].body.commits = <<2>>

\* on the linear history the request for g returned exactly revision 3
C9_Witness ==
  \E t \in Answered :
    /\ resp[t].head_seen = 3
    /\ PathKey(t) = <<"g">>
    /\ resp[t].walked
    /\ resp[t].body.commits = <<3>>

\* C10: total is the size of the path's index and filteredTotal is total
\* minus the number of indexed revisions whose author email is excluded.
C10_FilteredTotal ==
  \A t \in Answered :
    LET idx == EntryOf(t).commit_indices
        hidden == {k \in 1..Len(idx) :
                     CacheOf(t).all_commits[idx[k] + 1].author_email \in Excluded(t)}
    IN  /\ resp[t].body.total = Len(idx)
        /\ resp[t].body.filtered_total = resp[t].body.total - Cardinality(hidden)

\* an exclusion removed some, not all, of the revisions of a path
C10_Witness ==
  \E t \in Answered :
    /\ resp[t].body.filtered_total < resp[t].body.total
    /\ resp[t].body.filtered_total > 0
    /\ PathKey(t) # RootPath

\* the author-filtered index sequence the answer of worker t pages
FilteredOf(t) ==
  LET keep(i) == CacheOf(t).all_commits[i + 1].author_email \notin Excluded(t)
  IN  SelectSeq(EntryOf(t).commit_indices, keep)

\* C11, as stated: every answer has hasMore == (filteredTotal > offset +
\* limit), the sum taken in the integers; an offset at or beyond
\* filteredTotal gives an empty page and hasMore false.
C11_HasMore ==
  \A t \in Answered :
    /\ resp[t].body.has_more
         <=> (resp[t].body.filtered_total > resp[t].args.offset + resp[t].args.limit)
    /\ resp[t].args.offset >= resp[t].body.filtered_total
         => (resp[t].body.commits = <<>> /\ ~resp[t].body.has_more)

\* C12: the page holds the elements offset .. offset+limit-1 of the filtered
\* index sequence, in snapshot order (newest first), and its length is
\* min(limit, max(0, filteredTotal - offset)).
C12_PageContents ==
  \A t \in Answered :
    LET filtered == FilteredOf(t)
        n == Min(resp[t].args.limit, Max(0, Len(filtered) - resp[t].args.offset))
        items == resp[t].body.commits
    IN  /\ Len(items) = n
        /\ \A k \in 1..n :
             items[k] = CacheOf(t).all_commits[filtered[resp[t].args.offset + k] + 1].oid
        /\ \A k \in 1..(n - 1) : Commit(items[k]).time >= Commit(items[k + 1]).time

\* the page at offset 1 of the root without author a: revision 4 alone, the
\* second of the filtered sequence 2, 4 and not of the unfiltered sequence
C12_Witness ==
  \E t \in Answered :
    /\ resp[t].head_seen = 5
    /\ PathKey(t) = RootPath
    /\ Excluded(t) = {"a"}
    /\ resp[t].args.offset = 1
    /\ resp[t].args.limit = 2
    /\ resp[t].body.commits = <<4>>

\* C13: the contributor list of an answer is the stored aggregate of the
\* path's index, names and emails in the stored order: any other excluded
\* set, offset and limit on the same index give the same list, and authors
\* that are excluded are still listed.
C13_ContributorsUnfiltered ==
  \A t \in Answered :
    LET stored == EntryOf(t).contributors
        listed == resp[t].body.contributors
    IN  /\ Len(listed) = Len(stored)
        /\ \A k \in 1..Len(stored) :
             listed[k].email = stored[k].email /\ listed[k].name = stored[k].name
        /\ {listed[k].email : k \in 1..Len(listed)}
             = {CacheOf(t).all_commits[i + 1].author_email : i \in Range(EntryOf(t).commit_indices)}
        /\ \A limit \in {0, MaxLimit}, offset \in {0, MaxOffset}, exclude_authors \in ExcludeArgs :
             \A q \in query_commits(CacheOf(t), EntryOf(t), limit, offset, exclude_authors) :
               q.contributors = listed

\* an answer whose excluded author wrote revisions of the path and is listed
C13_Witness ==
  \E t \in Answered :
    /\ resp[t].body.filtered_total < resp[t].body.total
    /\ \E k \in 1..Len(resp[t].body.contributors) :
         resp[t].body.contributors[k].email \in Excluded(t)

RECURSIVE SumCounts(_)
SumCounts(cs) == IF cs = <<>> THEN 0 ELSE cs[1].commit_count + SumCounts(Tail(cs))

\* C14: the contributors of every path index: one entry per author email of
\* the indexed revisions, its count the number of indexed revisions of that
\* email, the counts summing to the index size, in non-increasing count order.
C14_ContributorAggregate ==
  \A o \in ObjIds :
    \A P \in DOMAIN objs[o].cache.path_cache :
      LET idx == objs[o].cache.path_cache[P].commit_indices
          cs == objs[o].cache.path_cache[P].contributors
          email(k) == objs[o].cache.all_commits[idx[k] + 1].author_email
      IN  /\ \A i, j \in 1..Len(cs) : cs[i].email = cs[j].email => i = j
          /\ {cs[i].email : i \in 1..Len(cs)} = {email(k) : k \in 1..Len(idx)}
          /\ \A i \in 1..Len(cs) :
               cs[i].commit_count = Cardinality({k \in 1..Len(idx) : email(k) = cs[i].email})
          /\ SumCounts(cs) = Len(idx)
          /\ \A i \in 1..(Len(cs) - 1) : cs[i].commit_count >= cs[i + 1].commit_count

\* the index of d under the merged head: b with two revisions before a with one
C14_Witness ==
  \E o \in ObjIds :
    /\ objs[o].cache # NoCache
    /\ <<"d">> \in DOMAIN objs[o].cache.path_cache
    /\ LET cs == objs[o].cache.path_cache[<<"d">>].contributors
       IN  Len(cs) = 2 /\ cs[1].commit_count = 2 /\ cs[2].commit_count = 1

\* C15: in every snapshot the timestamps never increase from one position to
\* the next.
C15_SnapshotOrdering ==
  \A o \in ObjIds :
    LET all_commits == objs[o].cache.all_commits
    IN  \A i \in 1..(Len(all_commits) - 1) :
          all_commits[i].timestamp >= all_commits[i + 1].timestamp

\* the snapshot of the merge: revision 4, older than its parent 1, comes last
C15_Witness ==
  \E o \in ObjIds :
    /\ objs[o].cache.head_oid = 5
    /\ Len(objs[o].cache.all_commits) = 5
    /\ objs[o].cache.all_commits[4].oid = 1
    /\ objs[o].cache.all_commits[5].oid = 4

\* C16: after a request that rebuilt the snapshot the cache holds the
\* snapshot of the head the request resolved, and its map holds the root
\* index and the index of the path the request asked for, nothing else.
C16_RebuildReplacesCache ==
  \A t \in Answered :
    resp[t].rebuilt =>
      /\ CacheOf(t).head_oid = resp[t].head_seen
      /\ DOMAIN CacheOf(t).path_cache = {RootPath, PathKey(t)}
      /\ Len(CacheOf(t).path_cache[RootPath].commit_indices) = Len(CacheOf(t).all_commits)

\* a rebuild for the head dev answered a request for g
C16_Witness ==
  \E t \in Answered :
    /\ resp[t].rebuilt
    /\ resp[t].head_seen = 4
    /\ PathKey(t) = <<"g">>
    /\ DOMAIN CacheOf(t).path_cache = {RootPath, <<"g">>}

\* C17: a request whose rebuild fails (the head does not resolve while the
\* snapshot is missing or stale) returns the error: no query runs, no
\* response body is produced and the stored cache stays as it was.
C17_FailedRebuildAborts ==
  [][\A t \in Workers :
       (pc[t] = "gc_cache" /\ pc'[t] # "gc_cache")
         => LET o == objs[my[t]]
            IN  /\ ResolveHead(o.store, head[o.store]) = None
                     => /\ ~resp'[t].ok
                        /\ pc'[t] = "gc_ret"
                        /\ ~resp'[t].walked
                        /\ objs'[my[t]].cache = o.cache
                /\ (pc'[t] = "gc_ret" /\ ~resp'[t].ok)
                     => /\ ResolveHead(o.store, head[o.store]) = None
                        /\ objs'[my[t]].cache = o.cache
    ]_vars

\* a request failed while a stale snapshot stays stored
C17_Witness ==
  \E t \in Answering :
    /\ ~resp[t].ok
    /\ CacheOf(t) # NoCache
    /\ ResolveHead(StoreOf(t), head[StoreOf(t)]) = None

\* the workers whose diff request has its response ready: as get_diff
\* returned it, and as the route returns it
DiffComputed == {t \in Workers : pc[t] = "diff_ret" /\ resp[t].ok}

DiffAnswered == {t \in Workers : pc[t] = "diff_out" /\ resp[t].ok}

\* the lines of a kind in the hunks of the files of a response
LinesOfKind(files, kind) ==
  {<<i, h, k>> \in (1..Len(files)) \X (1..1) \X (1..4) :
     /\ h <= Len(files[i].hunks)
     /\ k <= Len(files[i].hunks[h].lines)
     /\ files[i].hunks[h].lines[k].line_type = kind}

\* C18, as stated: in every response of the diff route, filtered by author
\* or not, stats.insertions and stats.deletions are the numbers of addition
\* and deletion lines of the files in the response and stats.filesChanged is
\* the number of those files.
C18_DiffStats ==
  \A t \in DiffAnswered :
    /\ \A i \in 1..Len(resp[t].body.files) :
         /\ Len(resp[t].body.files[i].hunks) <= 1
         /\ \A h \in 1..Len(resp[t].body.files[i].hunks) :
              Len(resp[t].body.files[i].hunks[h].lines) <= 4
    /\ resp[t].body.stats.insertions = Cardinality(LinesOfKind(resp[t].body.files, "addition"))
    /\ resp[t].body.stats.deletions = Cardinality(LinesOfKind(resp[t].body.files, "deletion"))
    /\ resp[t].body.stats.files_changed = Len(resp[t].body.files)

\* the tree a diff request is to be taken against: the tree of `from`, else
\* of the first parent of `to`, else no tree
BaseOf(t) ==
  IF resp[t].args.from_commit.some THEN Commit(resp[t].args.from_commit.v).tree
  ELSE IF Commit(resp[t].args.to_commit).parents # <<>>
       THEN Commit(Commit(resp[t].args.to_commit).parents[1]).tree
       ELSE EmptyTree

DiffPathKey(t) == IF resp[t].args.path.some THEN resp[t].args.path.v ELSE RootPath

\* C19: the files of a diff are the files under the path filter whose blob
\* differs between the base and the tree of `to`, the base being the tree of
\* `from` when given, else of the first parent of `to`, else empty: a file
\* absent from the base is added, absent from `to` deleted, else modified,
\* and the old content is the base's.
C19_DiffBase ==
  \A t \in DiffComputed :
    LET files == resp[t].body.files
        base == BaseOf(t)
        to_tree == Commit(resp[t].args.to_commit).tree
    IN  /\ {files[i].new_path.v : i \in 1..Len(files)}
             = {f \in Files : IsPrefix(DiffPathKey(t), f) /\ base[f] # to_tree[f]}
        /\ \A i, j \in 1..Len(files) : files[i].new_path.v = files[j].new_path.v => i = j
        /\ \A i \in 1..Len(files) :
             LET f == files[i].new_path.v
             IN  /\ files[i].status = "added" <=> base[f] = 0
                 /\ files[i].status = "deleted" <=> (base[f] # 0 /\ to_tree[f] = 0)
                 /\ files[i].old_content.some => files[i].old_content.v = Blob(f, base[f]).lines
                 /\ files[i].new_content.some => files[i].new_content.v = Blob(f, to_tree[f]).lines
                 /\ (base[f] = 0 /\ ~files[i].is_binary /\ Blob(f, to_tree[f]).utf8)
                      => files[i].new_content.some

\* the diff of the merge with `from` omitted is taken against its first
\* parent: d/h and f differ, g (absent from the second parent) does not
C19_Witness ==
  \E t \in DiffComputed :
    /\ ~resp[t].args.from_commit.some
    /\ resp[t].args.to_commit = 5
    /\ ~resp[t].args.path.some
    /\ Len(resp[t].body.files) = 2
    /\ resp[t].body.files[1].new_path.v = FileH
    /\ resp[t].body.files[1].status = "modified"
    /\ resp[t].body.files[2].new_path.v = FileF
    /\ resp[t].body.files[2].status = "modified"

\* C20: the attribution walk visits, each once, exactly the revisions
\* reachable from `to` that are not reachable from `from` (`from` itself
\* included among the excluded); without `from`, every revision reachable
\* from `to`.
C20_AttributionRange ==
  \A t \in DiffComputed :
    LET visited == resp[t].visited
        hidden == IF resp[t].args.from_commit.some
                  THEN Ancestors(resp[t].args.from_commit.v) ELSE {}
    IN  /\ Range(visited) = Ancestors(resp[t].args.to_commit) \ hidden
        /\ \A i, j \in 1..Len(visited) : visited[i] = visited[j] => i = j

\* the walk from the merge with the side branch hidden: 5, 3 and 2, not the
\* common root
C20_Witness ==
  \E t \in DiffComputed :
    /\ resp[t].args.from_commit = Some(4)
    /\ resp[t].args.to_commit = 5
    /\ resp[t].visited = <<5, 3, 2>>

\* the visited revisions by the author with email e whose diff against the
\* first parent, under the path filter of the request, contains file f
TouchesBy(t, f, e) ==
  {c \in Range(resp[t].visited) :
     /\ Commit(c).email = e
     /\ f \in DiffDeltas(IF Commit(c).parents # <<>> THEN Commit(Commit(c).parents[1]).tree
                          ELSE EmptyTree,
                          Commit(c).tree, DiffPathKey(t))}

\* the entries the walk recorded for file f and email e
RecordedFor(t, f, e) ==
  IF f \in DOMAIN resp[t].file_authors
  THEN {k \in 1..Len(resp[t].file_authors[f]) : resp[t].file_authors[f][k].email = e}
  ELSE {}

\* C21: after the attribution walk, for every file and author email, there
\* is an entry exactly when some visited revision of that author touches the
\* file (diff against its first parent, under the path filter); its commit
\* count is the number of those revisions and its last-touch time the
\* largest of their timestamps.
C21_AttributionTallies ==
  \A t \in DiffComputed :
    \A f \in Files, e \in Emails :
      LET touching == TouchesBy(t, f, e)
          recorded == RecordedFor(t, f, e)
      IN  /\ Cardinality(recorded) = IF touching = {} THEN 0 ELSE 1
          /\ \A k \in recorded :
               /\ resp[t].file_authors[f][k].commit_count = Cardinality(touching)
               /\ \E c \in touching :
                    /\ resp[t].file_authors[f][k].last_commit_timestamp = Commit(c).time
                    /\ \A d \in touching : Commit(d).time <= Commit(c).time

\* the walk from the merge: Ann touched d/h in the merge (time 5), visited
\* first, and in the root (time 2), visited last
C21_Witness ==
  \E t \in DiffComputed :
    /\ resp[t].visited = <<5, 3, 2, 4, 1>>
    /\ TouchesBy(t, FileH, "a") = {5, 1}
    /\ \E k \in RecordedFor(t, FileH, "a") :
         /\ resp[t].file_authors[FileH][k].commit_count = 2
         /\ resp[t].file_authors[FileH][k].last_commit_timestamp = 5
         /\ resp[t].file_authors[FileH][k].name = "Ann"

\* a list of a file's authors is ordered: more commits first, among equal
\* counts the more recent touch first
InAttributionOrder(authors) ==
  \A i, j \in 1..Len(authors) :
    i < j => \/ authors[i].commit_count > authors[j].commit_count
             \/ /\ authors[i].commit_count = authors[j].commit_count
                /\ authors[i].last_commit_timestamp >= authors[j].last_commit_timestamp

\* C22: the author list the walk returns for a file, and the list of every
\* file of the diff, is sorted by commit count descending, ties by last-touch
\* time descending; a file of the diff carries the walk's list for its path
\* and its top author is the email of the first element of that list.
C22_AttributionOrder ==
  \A t \in DiffComputed :
    /\ \A f \in DOMAIN resp[t].file_authors : InAttributionOrder(resp[t].file_authors[f])
    /\ \A i \in 1..Len(resp[t].body.files) :
         LET file == resp[t].body.files[i]
         IN  /\ InAttributionOrder(file.authors)
             /\ file.new_path.v \in DOMAIN resp[t].file_authors
                  => file.authors = resp[t].file_authors[file.new_path.v]
             /\ file.authors # <<>> => file.biggest_change_author = Some(file.authors[1].email)
             /\ file.authors = <<>> => ~file.biggest_change_author.some

\* the diff from the root to the merge: on f Bob has two commits, the later
\* at time 3, Ann one at time 5; Bob comes first and is the top author
C22_Witness ==
  \E t \in DiffComputed :
    \E i \in 1..Len(resp[t].body.files) :
      LET file == resp[t].body.files[i]
      IN  /\ file.new_path.v = FileF
          /\ Len(file.authors) = 2
          /\ file.authors[1].email = "b"
          /\ file.authors[1].commit_count = 2
          /\ file.authors[2].commit_count = 1
          /\ file.authors[1].last_commit_timestamp < file.authors[2].last_commit_timestamp
          /\ file.biggest_change_author = Some("b")

\* the workers whose working-copy diff has its response ready
WorkingComputed == {t \in Workers : pc[t] = "wt_ret" /\ resp[t].ok}

\* C23: every file flagged binary in a response of get_diff or of
\* get_working_tree_diff has neither old nor new content, also when the
\* bytes of the blob or of the file on disk would decode as text.
C23_BinaryContentOmitted ==
  \A t \in DiffComputed \cup DiffAnswered \cup WorkingComputed :
    \A i \in 1..Len(resp[t].body.files) :
      resp[t].body.files[i].is_binary
        => /\ ~resp[t].body.files[i].old_content.some
           /\ ~resp[t].body.files[i].new_content.some

\* g, binary and valid UTF-8, is modified on disk and flagged in the
\* working-copy diff: both contents are omitted
C23_Witness ==
  \E t \in WorkingComputed :
    \E i \in 1..Len(resp[t].body.files) :
      /\ resp[t].body.files[i].new_path.v = FileG
      /\ resp[t].body.files[i].status = "modified"
      /\ resp[t].body.files[i].is_binary
      /\ Blob(FileG, wc[StoreOf(t)].workdir[FileG]).utf8
      /\ ~resp[t].body.files[i].old_content.some
      /\ ~resp[t].body.files[i].new_content.some

\* C24, as stated: a diff request with a changed file that is not flagged
\* binary and whose old or new bytes are not valid UTF-8 does not succeed:
\* no successful response holds such a file (its content would be absent
\* without a sign).
C24_DecodeFailureReported ==
  \A t \in DiffComputed :
    \A i \in 1..Len(resp[t].body.files) :
      LET f == resp[t].body.files[i].new_path.v
      IN  ~resp[t].body.files[i].is_binary
            => /\ Blob(f, BaseOf(t)[f]).utf8
               /\ Blob(f, Commit(resp[t].args.to_commit).tree[f]).utf8

\* the workers whose diff request has returned from get_diff, with a
\* response or an error
DiffReturned == {t \in Workers : pc[t] \in {"diff_ret", "diff_out"}}

\* an identifier of a diff request that is malformed or names no commit
BadId(t, s) == s = MalformedOid \/ s \notin CommitsOf(StoreOf(t)) \cup {CorruptOid}

HasTrackedChanges(r) ==
  \E f \in Files : \/ wc[r].index[f] # HeadTree(r, head[r])[f]
                    \/ (wc[r].index[f] # 0 /\ wc[r].workdir[f] # wc[r].index[f])

\* a step of worker t that runs checkout_branch or checkout_remote_branch
CheckoutStep(t) ==
  \/ pc[t] = "co_repo" /\ pc'[t] = "co_ret"
  \/ pc[t] = "cr_repo" /\ pc'[t] = "cr_ret"

QueryStep(t) == pc[t] = "gc_cache" /\ pc'[t] = "gc_ret"

\* C27: a checkout changes no GitRepository object, the cache included, and
\* a successful one puts HEAD on the branch; a listRevisions request that
\* then finds a snapshot of another commit than the one HEAD resolves to
\* rebuilds it: the new snapshot is exactly the revisions reachable from the
\* new head and the answer holds no other revision.
C27_CacheFollowsCheckout ==
  [][\A t \in Workers :
       /\ CheckoutStep(t)
            => /\ objs' = objs
               /\ resp'[t].ok => head'[StoreOf(t)] = HeadBranch(resp'[t].args.branch)
       /\ (/\ QueryStep(t)
           /\ CacheOf(t) # NoCache
           /\ ResolveHead(StoreOf(t), head[StoreOf(t)]) # None
           /\ CacheOf(t).head_oid # ResolveHead(StoreOf(t), head[StoreOf(t)]))
            => LET new_head == ResolveHead(StoreOf(t), head[StoreOf(t)])
                   cache == objs'[my[t]].cache
               IN  /\ resp'[t].ok /\ resp'[t].rebuilt
                   /\ cache.head_oid = new_head
                   /\ {cache.all_commits[k].oid : k \in 1..Len(cache.all_commits)}
                        = Ancestors(new_head)
                   /\ Range(resp'[t].body.commits) \subseteq Ancestors(new_head)]_vars

\* HEAD of store A is on dev, where only a checkout by the server puts it:
\* a request has rebuilt the snapshot from revision 4 and answers with the
\* side branch, without revisions 2 and 3 of main
C27_Witness ==
  \E t \in Answered :
    /\ StoreOf(t) = "A"
    /\ head["A"] = HeadBranch("dev")
    /\ resp[t].rebuilt
    /\ resp[t].head_seen = 4
    /\ ~resp[t].args.path.some
    /\ resp[t].body.commits = <<1, 4>>

\* a handler about to lock the store mutex of its object
BeforeStoreLock(t) == pc[t] = "gc_read" \/ pc[t] \in DOMAIN UnderStoreGuard

LockFailed(t) == pc[t] \in {"gc_poisoned", "st_poisoned"}

\* C28: a request that comes to a poisoned store or cache mutex gets the
\* Internal error (status 500) and nothing else: no snapshot is built, no
\* query is run, and the step leaves the cache, the locks, HEAD and the
\* working copy as they were; the request then returns, it does not lock
\* again; the cache mutex is never found poisoned under a sound store mutex
C28_LockFailureIsFatal ==
  [][\A t \in Workers :
      /\ (BeforeStoreLock(t) /\ pc'[t] # pc[t]
            /\ (objs[my[t]].repo_poisoned \/ objs[my[t]].cache_poisoned))
           => /\ LockFailed(t)'
              /\ ~resp'[t].ok
              /\ resp'[t].error = "Internal"
              /\ http_status(resp'[t].error) = 500
              /\ ~resp'[t].rebuilt /\ ~resp'[t].walked
              /\ resp'[t].visited = <<>>
              /\ objs' = objs /\ head' = head /\ wc' = wc /\ active' = active
      /\ (LockFailed(t) /\ pc'[t] # pc[t])
           => /\ pc'[t] = "idle"
              /\ objs' = objs /\ head' = head /\ wc' = wc /\ active' = active
      /\ (pc[t] = "gc_repo" /\ pc'[t] # pc[t]) => ~objs[my[t]].cache_poisoned
    ]_vars

\* a listRevisions request failed on the mutex another request's panic
\* poisoned, and the cache is the one the panicking request left
C28_Witness ==
  \E t \in Workers :
    /\ pc[t] = "gc_poisoned"
    /\ objs[my[t]].repo_poisoned /\ objs[my[t]].cache_poisoned
    /\ objs[my[t]].repo_lock = None
    /\ ~resp[t].ok /\ resp[t].error = "Internal"
    /\ objs[my[t]].cache.head_oid = 3

\* C29: every successful working-copy diff has the sentinel "WORKING_TREE"
\* as its `to` identity and the commit HEAD resolves to at the time of the
\* request as `from`, no contributors, no authors and no biggest-change
\* author on any file, and total_files = filtered_files = the number of
\* files = stats.files_changed.
C29_WorkingDiffIdentity ==
  [][\A t \in Workers :
      (pc[t] = "wt_repo" /\ pc'[t] = "wt_ret" /\ resp'[t].ok)
        => LET body == resp'[t].body
               r == objs[my[t]].store
           IN  /\ body.to_commit = "WORKING_TREE"
               /\ ResolveHead(r, head[r]) # None
               /\ body.from_commit = Some(ResolveHead(r, head[r]))
               /\ body.contributors = <<>>
               /\ \A i \in 1..Len(body.files) :
                    /\ body.files[i].authors = <<>>
                    /\ ~body.files[i].biggest_change_author.some
               /\ body.total_files = Len(body.files)
               /\ body.filtered_files = Len(body.files)
               /\ body.stats.files_changed = Len(body.files)
    ]_vars

\* on branch dev (revision 4, which has no g) the user deleted f and
\* wrote an untracked g: the working-copy diff lists both files, the
\* untracked one without hunks, and counts two
C29_Witness ==
  \E t \in WorkingComputed :
    /\ resp[t].body.to_commit = "WORKING_TREE"
    /\ resp[t].body.from_commit = Some(4)
    /\ Len(resp[t].body.files) = 2
    /\ \E i \in 1..2 : /\ resp[t].body.files[i].new_path.v = FileG
                        /\ resp[t].body.files[i].status = "unmodified"
                        /\ resp[t].body.files[i].hunks = <<>>
    /\ \E i \in 1..2 : /\ resp[t].body.files[i].new_path.v = FileF
                        /\ resp[t].body.files[i].status = "deleted"
    /\ resp[t].body.stats.files_changed = 2
    /\ resp[t].body.total_files = 2
    /\ resp[t].body.filtered_files = 2
    /\ resp[t].body.contributors = <<>>

\* C30: in every state every entry of every path index of every cache is a
\* position of that cache's snapshot (below its length), and every path
\* index is strictly increasing.
C30_IndexValidity ==
  \A o \in ObjIds :
    LET cache == objs[o].cache
    IN  \A p \in DOMAIN cache.path_cache :
          LET ix == cache.path_cache[p].commit_indices
          IN  \A k \in 1..Len(ix) :
                /\ ix[k] >= 0
                /\ ix[k] < Len(cache.all_commits)
                /\ k > 1 => ix[k - 1] < ix[k]

\* a request found HEAD moved to revision 4, discarded the snapshot it had,
\* built the two-revision snapshot and the index of f on it, whose one
\* entry is the last position of the snapshot
C30_Witness ==
  \E t \in Workers :
    /\ pc[t] = "gc_ret"
    /\ resp[t].ok /\ resp[t].rebuilt /\ resp[t].walked
    /\ resp[t].args.path = Some(<<"f">>)
    /\ LET cache == objs[my[t]].cache
       IN  /\ cache.head_oid = 4
           /\ Len(cache.all_commits) = 2
           /\ DOMAIN cache.path_cache = {RootPath, <<"f">>}
           /\ cache.path_cache[RootPath].commit_indices = <<0, 1>>
           /\ cache.path_cache[<<"f">>].commit_indices = <<1>>

\* C31: when build_path_cache returns Err the request returns the Git error
\* and no entry for its path is in the path-index map: the map is the one
\* the request found (or, after a rebuild, the fresh map with the root
\* alone), no other part of the cache changed; and every request for a path
\* that has no entry runs the build again, storing the full index of the
\* path when it succeeds.
C31_NoPartialPathIndex ==
  [][\A t \in Workers :
      QueryStep(t) =>
        LET o == my[t]
            r == objs[o].store
            key == PathKey(t)'
            old == objs[o].cache
            new == objs'[o].cache
        IN  /\ (resp'[t].walked /\ ~resp'[t].ok)
                 => /\ resp'[t].error = "Git"
                    /\ key \notin DOMAIN new.path_cache
                    /\ ~resp'[t].rebuilt => new = old
                    /\ resp'[t].rebuilt => new \in build(r, head[r])
            /\ (resp'[t].ok /\ ~resp'[t].rebuilt /\ key \notin DOMAIN old.path_cache)
                 => /\ resp'[t].walked
                    /\ key \in DOMAIN new.path_cache
                    /\ new.path_cache[key].commit_indices
                         = TouchingIndices(new.all_commits, key, 0)
    ]_vars

\* on the snapshot of the merge 13 the index of f was built; the build of g
\* then failed at the second revision, after g's first index was collected:
\* the map holds the root and f and nothing for g
C31_Witness ==
  \E t \in Workers :
    /\ pc[t] = "gc_ret"
    /\ ~resp[t].ok /\ resp[t].error = "Git"
    /\ resp[t].walked /\ ~resp[t].rebuilt
    /\ resp[t].args.path = Some(<<"g">>)
    /\ objs[my[t]].cache.head_oid = 13
    /\ FailingPositions(objs[my[t]].cache.all_commits) = {1}
    /\ TouchingIndices(objs[my[t]].cache.all_commits, <<"g">>, 0) = <<0, 1>>
    /\ DOMAIN objs[my[t]].cache.path_cache = {RootPath, <<"f">>}

\* the emails a diff request excludes: the entries that are not blank
ExcludedEmails(args) ==
  IF args.exclude_authors.some THEN {e \in Range(args.exclude_authors.v) : e # ""} ELSE {}

\* the step in which the diff route filters a response of get_diff
FilterStep(t) == pc[t] = "diff_ret" /\ pc'[t] = "diff_out" /\ resp[t].ok

\* C32: with excluded emails the diff route removes exactly the files that
\* have an author and whose authors are all excluded, keeping the order of
\* the others; filtered_files becomes the number of files left, total_files
\* and the contributors stay; with no excluded email (none given, or only
\* blank ones) the response is unchanged and filtered_files = total_files.
C32_DiffAuthorFilter ==
  [][\A t \in Workers :
      FilterStep(t) =>
        LET before == resp[t].body
            after == resp'[t].body
            excluded == ExcludedEmails(resp[t].args)
            removed(file) == /\ file.authors # <<>>
                             /\ \A k \in 1..Len(file.authors) : file.authors[k].email \in excluded
        IN  /\ resp'[t].ok
            /\ after.total_files = before.total_files
            /\ after.total_files = Len(before.files)
            /\ after.contributors = before.contributors
            /\ after.filtered_files = Len(after.files)
            /\ excluded # {}
                 => after.files = SelectSeq(before.files, LAMBDA file : ~removed(file))
            /\ excluded = {}
                 => /\ after.files = before.files
                    /\ after.filtered_files = after.total_files
    ]_vars

\* the diff from 1 to 3 with b excluded: f, touched by Bob alone, is gone
\* and g, touched by Ann, stays; one of two files, both contributors
C32_Witness ==
  \E t \in DiffAnswered :
    /\ resp[t].args.from_commit = Some(1) /\ resp[t].args.to_commit = 3
    /\ resp[t].args.exclude_authors = Some(<<"b">>)
    /\ resp[t].body.total_files = 2
    /\ resp[t].body.filtered_files = 1
    /\ Len(resp[t].body.files) = 1
    /\ resp[t].body.files[1].new_path.v = FileG
    /\ Len(resp[t].body.contributors) = 2

\* C33, as stated: every file of a response of get_diff has at least one
\* attributed author and its biggest-change author is set (some revision
\* visited by the attribution walk touches it).
C33_EveryFileHasAuthor ==
  \A t \in DiffComputed :
    \A i \in 1..Len(resp[t].body.files) :
      /\ resp[t].body.files[i].authors # <<>>
      /\ resp[t].body.files[i].biggest_change_author.some
      /\ \E k \in 1..Len(resp[t].visited) :
           commit_touches_path(resp[t].visited[k], resp[t].body.files[i].new_path.v)

\* the commit whose tree a diff request is taken against: `from` when given,
\* else the first parent of `to`, else none
BaseCommitOf(t) ==
  IF resp[t].args.from_commit.some THEN resp[t].args.from_commit.v
  ELSE IF Commit(resp[t].args.to_commit).parents # <<>>
       THEN Commit(resp[t].args.to_commit).parents[1]
       ELSE None

\* the revisions between the base of a diff request and `to`
DiffedRange(t) ==
  Ancestors(resp[t].args.to_commit)
    \ (IF BaseCommitOf(t) = None THEN {} ELSE Ancestors(BaseCommitOf(t)))

\* C34, as stated: the revisions whose authors are attributed to the files
\* of a response of get_diff are the revisions reachable from `to` and not
\* from the base the tree diff used; with `from` omitted no revision
\* reachable from the first parent of `to` contributes an author: every
\* author of a file touched the file in a revision of that range, as many
\* times as the response says.
C34_AttributionRangeIsDiffedRange ==
  \A t \in DiffComputed :
    /\ Range(resp[t].visited) = DiffedRange(t)
    /\ \A i \in 1..Len(resp[t].body.files) :
         \A k \in 1..Len(resp[t].body.files[i].authors) :
           LET f == resp[t].body.files[i].new_path.v
               a == resp[t].body.files[i].authors[k]
           IN  a.commit_count
                 = Cardinality({c \in DiffedRange(t) :
                                  /\ Commit(c).email = a.email
                                  /\ commit_touches_path(c, f)})

\* C35: a checkout request changes HEAD only in its set_head step, which
\* follows its successful checkout_tree: the index is then the tree of the
\* target branch (and so are its g and d/h on disk, which the user leaves
\* alone), HEAD goes to that branch and the working copy is left as
\* checked out; a failed checkout_tree, whatever it has written, leaves
\* HEAD as it was and fails the request, as does a failed set_head.
C35_HeadAfterTree ==
  [][\A t \in Workers :
      LET r == objs[my[t]].store
      IN  /\ (pc'[t] # pc[t] /\ head' # head)
               => /\ pc[t] = "co_head"
                  /\ resp[t].ok /\ resp'[t].ok
                  /\ head' = [head EXCEPT ![r] = HeadBranch(TargetBranch(t))]
                  /\ wc' = wc
                  /\ wc[r].index = TargetTree(t)
                  /\ \A f \in {FileG, FileH} :
                       TargetTree(t)[f] # 0 => wc[r].workdir[f] = TargetTree(t)[f]
          /\ (pc[t] = "co_tree" /\ pc'[t] = "co_ret")
               => /\ ~resp'[t].ok /\ resp'[t].error = "Git"
                  /\ head' = head
          /\ (pc[t] = "co_tree" /\ pc'[t] = "co_head")
               => /\ head' = head
                  /\ wc'[r] = checkout_tree(wc[r], TargetTree(t))
          /\ (pc[t] = "co_head" /\ ~resp'[t].ok) => head' = head
    ]_vars

\* the checkout of dev from main failed in checkout_tree after f was
\* written: HEAD still names main, the working copy is between the two trees
C35_Witness ==
  \E t \in Workers :
    /\ pc[t] = "co_ret" /\ resp[t].kind = "checkout"
    /\ resp[t].args.branch = "dev"
    /\ ~resp[t].ok /\ resp[t].error = "Git"
    /\ head["A"] = HeadBranch("main")
    /\ wc["A"].workdir[FileF] = 2
    /\ wc["A"].workdir[FileG] = 1
    /\ wc["A"].workdir[FileH] = 1

\* C36: a switch request whose open fails returns RepoNotFound (404) at
\* once: neither of its two steps touches the shared object, any snapshot or
\* path index, the locks or the stores, and it never holds the write guard;
\* the info of a newly opened object is always read, so no switch fails
\* after the open.
C36_FailedSwitchChangesNothing ==
  [][\A t \in Workers :
      /\ ((pc[t] = "sw_err" \/ pc'[t] = "sw_err") /\ pc'[t] # pc[t])
           => /\ objs' = objs /\ active' = active /\ rw' = rw
              /\ head' = head /\ wc' = wc /\ my' = my
              /\ rw.writer # t /\ my[t] = None
              /\ pc[t] = "sw_err" => (pc'[t] = "idle" /\ ~resp[t].ok
                                        /\ http_status(resp[t].error) = 404)
              /\ pc'[t] = "sw_err" => (pc[t] = "idle" /\ ~resp'[t].ok
                                         /\ resp'[t].error = "RepoNotFound")
      /\ (pc[t] = "sw_open" /\ pc'[t] # pc[t]) => pc'[t] = "sw_info"
      /\ (pc[t] = "sw_info" /\ pc'[t] # pc[t]) => (pc'[t] = "sw_got" /\ resp'[t].ok)
    ]_vars

\* a switch to a directory without a repository has failed while the
\* shared object holds a snapshot with the index of f
C36_Witness ==
  \E t \in Workers :
    /\ pc[t] = "sw_err" /\ ~resp[t].ok
    /\ rw.writer = None
    /\ objs[active].store = "A"
    /\ objs[active].cache # NoCache
    /\ <<"f">> \in DOMAIN objs[active].cache.path_cache

HoldsRw(t) == t \in rw.readers \/ rw.writer = t

HoldsRepo(t) == \E o \in ObjIds : objs[o].repo_lock = t

HoldsCache(t) == \E o \in ObjIds : objs[o].cache_lock = t

\* a store operation that worker t has entered has an outcome
HasOutcome(t) ==
  LET o == objs[my[t]]
  IN  /\ pc[t] = "gc_cache" =>
           \A offset \in OffsetsL :
             with_cache(o.cache, o.store, head[o.store], NoneArg, MaxLimit, offset, NoneArg) # {}
      /\ pc[t] = "diff_repo" => get_diff(o.store, NoneArg, DiffToL, NoneArg) # {}

\* worker t, whose request is in flight, can take a step
CanStep(t) ==
  IF InStoreOperation(t)
  THEN HasOutcome(t)
  ELSE ENABLED <<WithCacheLockRepo(t) \/ LockRepo(t) \/ WriteGuard(t) \/ Runs(t)>>_vars

\* C37: a guard of the shared object is taken by a request that holds no
\* mutex, the store mutex by one that does not hold the cache mutex, the
\* cache mutex only under the store mutex and the read guard; a request that
\* has ended holds nothing; whenever requests are in flight one of them can
\* take a step; and under fair scheduling every request in flight ends.
C37_NoDeadlockAndProgress ==
  /\ [][\A t \in Workers :
          /\ (HoldsRw(t)' /\ ~HoldsRw(t)) => (~HoldsRepo(t) /\ ~HoldsCache(t))
          /\ (HoldsRepo(t)' /\ ~HoldsRepo(t)) => ~HoldsCache(t)
          /\ (HoldsCache(t)' /\ ~HoldsCache(t)) => (HoldsRepo(t) /\ t \in rw.readers)
       ]_vars
  /\ [](\A t \in Workers :
          pc[t] = "idle" => (~HoldsRw(t) /\ ~HoldsRepo(t) /\ ~HoldsCache(t)))
  /\ []((\E t \in Workers : pc[t] # "idle")
          => \E t \in Workers : pc[t] # "idle" /\ CanStep(t))
  /\ \A t \in Workers : (pc[t] # "idle") ~> (pc[t] = "idle")

\* one worker holds the write guard of a switch while the other, whose
\* request has ended, holds nothing; the object to be replaced has a
\* poisoned store mutex
C37_Witness ==
  \E t, u \in Workers :
    /\ pc[t] = "sw_write" /\ rw.writer = t
    /\ pc[u] = "idle"
    /\ objs[active].repo_poisoned

\* C38, as stated: offset + limit is evaluated without wrapping and without
\* panicking for every offset and limit of the machine word: the sum that a
\* query compares with filteredTotal is the sum in the integers, no answer
\* has hasMore true with an offset at or beyond filteredTotal, and no query
\* aborts under the store and cache locks (no worker unwinds, no mutex is
\* poisoned).
C38_HasMoreNoOverflow ==
  /\ \A t \in Answered :
       /\ resp[t].args.offset + resp[t].args.limit <= UsizeMax
            \/ (resp[t].body.has_more <=>
                  resp[t].body.filtered_total > resp[t].args.offset + resp[t].args.limit)
       /\ resp[t].args.offset >= resp[t].body.filtered_total => ~resp[t].body.has_more
  /\ \A t \in Workers : pc[t] # "gc_panic"
  /\ \A o \in ObjIds : ~objs[o].repo_poisoned /\ ~objs[o].cache_poisoned

\* the worker's batched lookup has run and has not yet returned
LookedUp(t) == pc[t] = "lc_ret"

\* C39, as stated: for any non-empty list of paths the batched lookup has
\* exactly one entry per distinct requested path, each equal to what the
\* per-path lookup returns for that path alone on the same head, and it
\* fails exactly when the per-path lookups fail.
C39_BatchEqualsPerPath ==
  \A t \in Workers :
    (LookedUp(t) /\ resp[t].args.paths # <<>>) =>
      LET paths == Range(resp[t].args.paths)
          one(p) == get_last_commit_for_path(resp[t].head_seen, p)
      IN  IF resp[t].ok
          THEN /\ DOMAIN resp[t].body = paths
               /\ \A p \in paths : one(p).ok /\ resp[t].body[p] = one(p).info
          ELSE \A p \in paths : ~one(p).ok
====
